---- MODULE Spec2Model ----
(***************************************************************************)
(* Circuit breaker of package sparkgap (src/sparkgap.go).                  *)
(*                                                                         *)
(* One breaker[T] instance, a set of caller goroutines running Execute,    *)
(* and the retry goroutines started by startRetry.  Every access to the    *)
(* shared memory of the breaker (getState/setState under the RWMutex, and  *)
(* each sync/atomic operation on a counter) is one step; the goroutines    *)
(* interleave freely between steps, as the Go scheduler lets them.         *)
(* T is int (zero value 0).  The counters are uint32; the number of calls  *)
(* is bounded by MaxCalls, far below 2^32, so they never wrap here.        *)
(***************************************************************************)
EXTENDS Integers, Sequences, FiniteSets, TLC

\* ---------------------------------------------------------------- bounds
NumCallers == 2
MaxCalls == 4
MaxSeqCalls == 6
MaxFairCalls == 3
MaxThreshold == 3
MaxProbes == 2
MaxDefaultCalls == 12
MaxWindow == 50
MaxVariantCalls == 6
MaxSuccessThreshold == 2
MaxPercentCalls == 5
MaxLockCalls == 3

\* ------------------------------------------------------ program constants
stateClosed == 0
stateOpen == 1
stateHalfOpen == 2

\* Defaults of lines 24-27.  A time.Duration is counted in milliseconds
\* (5 * time.Second = 5000).
defaultFailureThreshold == 5
defaultHalfOpenProbes == 10
defaultHalfOpenMaxFailurePercent == 30
defaultRetryInterval == 5000

Nil == "nil"
ErrOpen == "circuit breaker is open"

Callers == 1..NumCallers

\* The goroutines that call setState or getState: the callers of Execute,
\* the retry goroutine that has woken up (line 74; a second one that wakes
\* meanwhile waits in Lock) and the goroutine that calls LogState.
retryGoroutine == NumCallers + 1
logGoroutine == NumCallers + 2
Goroutines == Callers \cup {retryGoroutine, logGoroutine}

\* BreakerConfig values the model is built with (all inside their domains,
\* so applyDefaults keeps them).
Thresholds == 1..MaxThreshold
ProbeWindows == 1..MaxProbes
Percents == {defaultHalfOpenMaxFailurePercent, 100}

\* What a call of work (fn) may return: a value with a nil error, or an
\* error (Go lets fn return a non-zero value beside it).
WorkOutcomes ==
    { [res |-> 7, err |-> Nil],
      [res |-> 3, err |-> "service broke"] }

VARIABLES
    state,                      \* br.state
    failureCount,               \* br.counter.failureCount
    halfOpenFailureCount,       \* br.counter.halfOpenFailureCount
    halfOpenSuccessCount,       \* br.counter.halfOpenSuccessCount
    failureThreshold,           \* br.counter.failureThreshold
    halfOpenMaxProbes,          \* br.counter.halfOpenMaxProbes
    halfOpenMaxFailurePercent,  \* br.counter.halfOpenMaxFailurePercent
    timers,                     \* retry goroutines asleep in time.Sleep
    pc,                         \* pc[c]: where caller c is inside Execute
    call,                       \* call[c]: the locals of c's current/last call
    ret,                        \* what the last Execute to return returned
    calls,                      \* history: Execute calls issued
    callLimit,                  \* the Execute calls the workload issues
    failsDone,                  \* history: returned calls whose work failed
    fired,                      \* history: retry timers that have fired
    retryInterval,              \* br.counter.retryInterval
    timeout,                    \* br.timeout
    mu,                         \* br.mu: 0 free, n > 0 readers, -1 a writer
    cfg,                        \* the *BreakerConfig handed to InitBreaker
    built,                      \* "no": not constructed, "yes", or "panic"
    workOutcomes,               \* what the work function handed to Execute may return
    State,                      \* package breaker: br.State
    Failure,                    \* package breaker: br.Counter.Failure
    FailureThreshold,           \* package breaker: br.Counter.FailureThreshold
    Success,                    \* package breaker: br.Counter.Success
    SuccessThreshold,           \* package breaker: br.Counter.SuccessThreshold
    HalfStateTotalRetryCount,   \* package breaker: br.Counter.HalfStateTotalRetryCount
    HalfStateFailureCount,      \* package breaker: br.Counter.HalfStateFailureCount
    HalfStateSuccessCount,      \* package breaker: br.Counter.HalfStateSuccessCount
    HalfStateFailurePercentage, \* package breaker: br.Counter.HalfStateFailurePercentage
    log,                        \* the position and the locals of the LogState call in progress
    lk                          \* lk[g]: where goroutine g is inside setState or getState

vars == << state, failureCount, halfOpenFailureCount, halfOpenSuccessCount,
           failureThreshold, halfOpenMaxProbes, halfOpenMaxFailurePercent,
           timers, pc, call, ret, calls, callLimit, failsDone, fired,
           retryInterval, timeout, mu, cfg, built, workOutcomes,
           State, Failure, FailureThreshold, Success, SuccessThreshold,
           HalfStateTotalRetryCount, HalfStateFailureCount, HalfStateSuccessCount,
           HalfStateFailurePercentage, log, lk >>

\* The Breaker of package breaker (both variants).
breakerVars == << State, Failure, FailureThreshold, Success, SuccessThreshold,
                 HalfStateTotalRetryCount, HalfStateFailureCount,
                 HalfStateSuccessCount, HalfStateFailurePercentage >>

\* The breaker of package sparkgap and the configuration it was built from.
sparkgapVars == << state, failureCount, halfOpenFailureCount, halfOpenSuccessCount,
                  failureThreshold, halfOpenMaxProbes, halfOpenMaxFailurePercent,
                  retryInterval, timeout, cfg, built >>

\* What no step of Execute or of a retry goroutine writes (lk moves only
\* where setState and getState are taken one statement at a time, SpecLock).
cfgVars == << failureThreshold, halfOpenMaxProbes, halfOpenMaxFailurePercent,
             retryInterval, timeout, cfg, built, workOutcomes, callLimit,
             breakerVars, log, lk >>

\* The locals of a call before Execute has read the state.
NoCall ==
    [ st |-> -1, worked |-> 0, wres |-> 0, werr |-> Nil,
      fail |-> 0, succ |-> 0, decided |-> -1 ]

\* No Execute has returned yet.
NoRet ==
    [ st |-> -1, worked |-> 0, wres |-> 0, werr |-> Nil, res |-> 0, err |-> Nil ]

\* Mutant of applyDefaults: the test "> 100" of line 48 is missing.
applyDefaultsNoUpperLimit(c) ==
    [ FailureThreshold |->
          IF c.FailureThreshold = 0 THEN defaultFailureThreshold ELSE c.FailureThreshold,
      RetryInterval |->
          IF c.RetryInterval <= 0 THEN defaultRetryInterval ELSE c.RetryInterval,
      HalfOpenMaxProbes |->
          IF c.HalfOpenMaxProbes = 0 THEN defaultHalfOpenProbes ELSE c.HalfOpenMaxProbes,
      HalfOpenMaxFailurePercent |->
          IF c.HalfOpenMaxFailurePercent = 0
          THEN defaultHalfOpenMaxFailurePercent ELSE c.HalfOpenMaxFailurePercent,
      Timeout |-> c.Timeout ]

\* applyDefaults, lines 38-51: the configuration after the defaults have
\* been written into it (c is not nil).
applyDefaults(c) ==
    [ FailureThreshold |->
          IF c.FailureThreshold = 0 THEN defaultFailureThreshold ELSE c.FailureThreshold,
      RetryInterval |->
          IF c.RetryInterval <= 0 THEN defaultRetryInterval ELSE c.RetryInterval,
      HalfOpenMaxProbes |->
          IF c.HalfOpenMaxProbes = 0 THEN defaultHalfOpenProbes ELSE c.HalfOpenMaxProbes,
      HalfOpenMaxFailurePercent |->
          IF c.HalfOpenMaxFailurePercent = 0 \/ c.HalfOpenMaxFailurePercent > 100
          THEN defaultHalfOpenMaxFailurePercent ELSE c.HalfOpenMaxFailurePercent,
      Timeout |-> c.Timeout ]

\* No Breaker of package breaker is in use.
NoVariant ==
    /\ State = 0
    /\ Failure = 0
    /\ FailureThreshold = 0
    /\ Success = 0
    /\ SuccessThreshold = 0
    /\ HalfStateTotalRetryCount = 0
    /\ HalfStateFailureCount = 0
    /\ HalfStateSuccessCount = 0
    /\ HalfStateFailurePercentage = 0

\* No LogState call is in progress (st, failures, hFail and hSucc are its
\* locals of lines 104-107).
NoLog == [ pc |-> "idle", st |-> -1, failures |-> 0, hFail |-> 0, hSucc |-> 0 ]

\* No goroutine is inside setState or getState: ph is the position ("out",
\* or after Lock, after the assignment, after RLock, after the read), val
\* the value getState is about to return.
NoLocks == [g \in Goroutines |-> [ph |-> "out", val |-> -1]]

\* The workload: no call issued yet, no caller inside Execute or LogState.
NoCallsYet ==
    /\ log = NoLog
    /\ lk = NoLocks
    /\ pc = [c \in Callers |-> "idle"]
    /\ call = [c \in Callers |-> NoCall]
    /\ ret = NoRet
    /\ calls = 0
    /\ failsDone = 0
    /\ fired = 0
    /\ timers = 0

\* The breaker returned by InitBreaker (lines 202-212) for the configuration
\* d that applyDefaults left: state Closed, all counters 0, mu unlocked.
BreakerOf(d) ==
    /\ state = stateClosed
    /\ failureCount = 0
    /\ halfOpenFailureCount = 0
    /\ halfOpenSuccessCount = 0
    /\ failureThreshold = d.FailureThreshold
    /\ retryInterval = d.RetryInterval
    /\ halfOpenMaxProbes = d.HalfOpenMaxProbes
    /\ halfOpenMaxFailurePercent = d.HalfOpenMaxFailurePercent
    /\ timeout = d.Timeout
    /\ mu = 0
    /\ built = "yes"

\* InitBreaker: state Closed, all counters 0, the configuration as given.
InitBreaker ==
    /\ state = stateClosed
    /\ failureCount = 0
    /\ halfOpenFailureCount = 0
    /\ halfOpenSuccessCount = 0
    /\ failureThreshold \in Thresholds
    /\ halfOpenMaxProbes \in ProbeWindows
    /\ halfOpenMaxFailurePercent \in Percents
    /\ retryInterval = defaultRetryInterval
    /\ timeout = 0
    /\ mu = 0
    /\ cfg = [ FailureThreshold |-> failureThreshold,
               RetryInterval |-> retryInterval,
               HalfOpenMaxProbes |-> halfOpenMaxProbes,
               HalfOpenMaxFailurePercent |-> halfOpenMaxFailurePercent,
               Timeout |-> timeout ]
    /\ built = "yes"
    /\ NoVariant
    /\ log = NoLog
    /\ lk = NoLocks
    /\ timers = 0
    /\ pc = [c \in Callers |-> "idle"]
    /\ call = [c \in Callers |-> NoCall]
    /\ ret = NoRet
    /\ calls = 0
    /\ failsDone = 0
    /\ fired = 0

Init ==
    /\ InitBreaker
    /\ callLimit = MaxCalls
    /\ workOutcomes = WorkOutcomes

\* ------------------------------------------------------------ state store
\* getState, lines 84-88: br.mu.RLock(); defer br.mu.RUnlock(); return
\* br.state.  RLock waits while a writer holds mu; the lock is released when
\* getState returns, so the whole of it is one step that leaves mu as it was.
getStateLock ==
    /\ mu >= 0
    /\ mu' = mu

getState == state

\* setState, lines 78-82: br.mu.Lock(); br.state = state; br.mu.Unlock().
\* Lock waits until mu is free.
setState(s) ==
    /\ mu = 0
    /\ state' = s
    /\ mu' = 0

\* ------------------------------------------------- float64 arithmetic
\* Line 170 computes the percentage in float64 (IEEE 754 binary64, round to
\* nearest, ties to even).  A float is [m, e]: m the 53 bits of the
\* significand, most significant first (m[1] = 1), e the exponent of m[1].
\* Numbers too wide for one machine integer are kept as bit sequences.
SignificandBits == 53

\* The bits of the natural number x, most significant first.
RECURSIVE NatBits(_)
NatBits(x) == IF x = 0 THEN << >> ELSE Append(NatBits(x \div 2), x % 2)

\* The natural number of a bit sequence.
RECURSIVE BitsToNat(_)
BitsToNat(b) ==
    IF b = << >> THEN 0
    ELSE 2 * BitsToNat(SubSeq(b, 1, Len(b) - 1)) + b[Len(b)]

\* The low k bits of x, most significant first.
LowBits(x, k) == [i \in 1..k |-> (x \div (2 ^ (k - i))) % 2]

\* The first 6*k bits after the binary point of r/d (0 <= r < d < 2^25),
\* six bits at a time.
RECURSIVE FracBits(_, _, _)
FracBits(r, d, k) ==
    IF k = 0 THEN << >>
    ELSE LowBits((64 * r) \div d, 6) \o FracBits((64 * r) % d, d, k - 1)

\* The remainder left after those bits.
RECURSIVE FracRem(_, _, _)
FracRem(r, d, k) == IF k = 0 THEN r ELSE FracRem((64 * r) % d, d, k - 1)

\* The zero bits between the binary point and the first 1 of r/d (0 < r < d).
RECURSIVE LeadZeros(_, _)
LeadZeros(r, d) == IF 2 * r >= d THEN 0 ELSE 1 + LeadZeros(2 * r, d)

\* b + 1 for a bit sequence that is not all ones.
IncBits(b) ==
    LET j == CHOOSE i \in 1..Len(b) : b[i] = 0 /\ \A k \in (i + 1)..Len(b) : b[k] = 1
    IN [i \in 1..Len(b) |-> IF i < j THEN b[i] ELSE IF i = j THEN 1 ELSE 0]

\* Round to nearest even: bits starts with the significand, then the round
\* bit, then more bits; sticky says whether anything non-zero follows them;
\* e is the exponent of bits[1].
RoundNearestEven(bits, sticky, e) ==
    LET m == SubSeq(bits, 1, SignificandBits)
        rest == sticky \/ \E i \in (SignificandBits + 2)..Len(bits) : bits[i] = 1
        up == bits[SignificandBits + 1] = 1 /\ (rest \/ m[SignificandBits] = 1)
    IN IF ~up THEN [m |-> m, e |-> e]
       ELSE IF \A i \in 1..SignificandBits : m[i] = 1
       THEN [m |-> [i \in 1..SignificandBits |-> IF i = 1 THEN 1 ELSE 0], e |-> e + 1]
       ELSE [m |-> IncBits(m), e |-> e]

\* float64(a) / float64(d) for uint32 values a > 0, d > 0 (both exact in
\* float64), correctly rounded.
FloatDiv(a, d) ==
    LET ip == NatBits(a \div d)
    IN IF ip # << >>
       THEN RoundNearestEven(ip \o FracBits(a % d, d, 9), FracRem(a % d, d, 9) # 0,
                             Len(ip) - 1)
       ELSE LET z == LeadZeros(a, d)
                r == a * (2 ^ z)
            IN RoundNearestEven(FracBits(r, d, 9), FracRem(r, d, 9) # 0, -(z + 1))

\* The bits of m * k for a significand m and 0 < k < 128, in 24-bit limbs.
MulSmall(m, k) ==
    LET lo == BitsToNat(SubSeq(m, 30, 53)) * k
        mid == BitsToNat(SubSeq(m, 6, 29)) * k + lo \div (2 ^ 24)
        hi == BitsToNat(SubSeq(m, 1, 5)) * k + mid \div (2 ^ 24)
    IN NatBits(hi) \o LowBits(mid % (2 ^ 24), 24) \o LowBits(lo % (2 ^ 24), 24)

\* f * float64(k) for 0 < k < 128, correctly rounded.
FloatMul(f, k) ==
    LET p == MulSmall(f.m, k)
        e == f.e + (Len(p) - SignificandBits)
    IN IF Len(p) = SignificandBits THEN [m |-> p, e |-> e]
       ELSE RoundNearestEven(p, FALSE, e)

\* uint32(f): the integer part of f, for 0 <= f < 2^31.
FloatToUint(f) ==
    IF f.e < 0 THEN 0 ELSE BitsToNat(SubSeq(f.m, 1, f.e + 1))

\* uint32(float64(fail) / float64(n) * 100), as line 170 computes it.
FloatPercent(fail, n) ==
    IF fail = 0 THEN 0 ELSE FloatToUint(FloatMul(FloatDiv(fail, n), 100))

\* The percentages of the windows the model is built with, computed once.
PercentTable ==
    [p \in {q \in (0..MaxProbes) \X ProbeWindows : q[1] <= q[2]} |->
        FloatPercent(p[1], p[2])]

\* Mutant of FailurePercent: the percentage of the successes is taken.
FailurePercentOfSuccesses(fail, n) ==
    IF << n - fail, n >> \in DOMAIN PercentTable
    THEN PercentTable[<< n - fail, n >>]
    ELSE FloatPercent(n - fail, n)

\* failurePercent of line 170 for fail failures in a window of n probes.
FailurePercent(fail, n) ==
    IF << fail, n >> \in DOMAIN PercentTable
    THEN PercentTable[<< fail, n >>]
    ELSE FloatPercent(fail, n)

\* --------------------------------------------------------------- Execute
\* Execute returns (r, e) to the caller.
Return(c, r, e) ==
    /\ pc' = [pc EXCEPT ![c] = "idle"]
    /\ call' = [call EXCEPT ![c] = NoCall]
    /\ ret' = [ st |-> call[c].st, worked |-> call[c].worked, wres |-> call[c].wres,
                werr |-> call[c].werr, res |-> r, err |-> e ]
    /\ failsDone' = IF call[c].worked > 0 /\ call[c].werr # Nil
                    THEN failsDone + 1 ELSE failsDone

\* A step inside Execute that moves c on to `next`.
Goto(c, next) ==
    /\ pc' = [pc EXCEPT ![c] = next]
    /\ UNCHANGED << call, ret, failsDone >>

\* Mutant of Begin: the case stateOpen is missing, so an Open breaker lets
\* the call through like a Closed one.
BeginNoShortCircuit(c) ==
    /\ pc[c] = "idle"
    /\ getStateLock
    /\ calls < callLimit
    /\ calls' = calls + 1
    /\ pc' = [pc EXCEPT ![c] = "work"]
    /\ call' = [call EXCEPT ![c].st = getState]
    /\ UNCHANGED << state, failureCount, halfOpenFailureCount, halfOpenSuccessCount,
                    cfgVars, timers, ret, failsDone, fired >>

\* Mutant of Begin: the read lock is taken in Execute and still held when
\* the call goes on to work.
BeginHoldsLock(c) ==
    /\ pc[c] = "idle"
    /\ mu >= 0
    /\ calls < callLimit
    /\ calls' = calls + 1
    /\ LET s == getState
       IN IF s = stateOpen
          THEN /\ UNCHANGED << pc, call, mu >>
               /\ ret' = [NoRet EXCEPT !.st = s, !.res = 0, !.err = ErrOpen]
          ELSE /\ pc' = [pc EXCEPT ![c] = "work"]
               /\ call' = [call EXCEPT ![c].st = s]
               /\ mu' = mu + 1
               /\ UNCHANGED ret
    /\ UNCHANGED << state, failureCount, halfOpenFailureCount, halfOpenSuccessCount,
                    cfgVars, timers, failsDone, fired >>

\* Execute, line 134: switch br.getState(); case stateOpen returns at once.
Begin(c) ==
    /\ pc[c] = "idle"
    /\ getStateLock
    /\ calls < callLimit
    /\ calls' = calls + 1
    /\ LET s == getState
       IN IF s = stateOpen
          THEN /\ UNCHANGED << pc, call >>
               /\ ret' = [NoRet EXCEPT !.st = s, !.res = 0, !.err = ErrOpen]
          ELSE /\ pc' = [pc EXCEPT ![c] = "work"]
               /\ call' = [call EXCEPT ![c].st = s]
               /\ UNCHANGED ret
    /\ UNCHANGED << state, failureCount, halfOpenFailureCount, halfOpenSuccessCount,
                    cfgVars, timers, failsDone, fired >>

\* Mutant of Work: a successful call in Closed resets failureCount, as the
\* doc comment of Execute says it does.
WorkResetsOnSuccess(c) ==
    /\ pc[c] = "work"
    /\ \E o \in workOutcomes :
         LET ran == [call EXCEPT ![c].worked = @ + 1, ![c].wres = o.res, ![c].werr = o.err]
         IN IF call[c].st = stateHalfOpen
            THEN /\ call' = ran
                 /\ pc' = [pc EXCEPT ![c] = "r_get"]
                 /\ UNCHANGED << ret, failsDone, failureCount >>
            ELSE IF o.err # Nil
            THEN /\ call' = ran
                 /\ pc' = [pc EXCEPT ![c] = "f_add"]
                 /\ UNCHANGED << ret, failsDone, failureCount >>
            ELSE /\ call' = [call EXCEPT ![c] = NoCall]
                 /\ pc' = [pc EXCEPT ![c] = "idle"]
                 /\ ret' = [ st |-> call[c].st, worked |-> call[c].worked + 1,
                             wres |-> o.res, werr |-> o.err, res |-> o.res, err |-> Nil ]
                 /\ failureCount' = 0
                 /\ UNCHANGED failsDone
    /\ UNCHANGED << state, halfOpenFailureCount, halfOpenSuccessCount,
                    cfgVars, mu, timers, calls, fired >>

\* Execute, lines 138 and 146: res, err := fn().  In Closed a nil error
\* returns at once (line 151).
Work(c) ==
    /\ pc[c] = "work"
    /\ \E o \in workOutcomes :
         LET ran == [call EXCEPT ![c].worked = @ + 1, ![c].wres = o.res, ![c].werr = o.err]
         IN IF call[c].st = stateHalfOpen
            THEN /\ call' = ran
                 /\ pc' = [pc EXCEPT ![c] = "r_get"]
                 /\ UNCHANGED << ret, failsDone >>
            ELSE IF o.err # Nil
            THEN /\ call' = ran
                 /\ pc' = [pc EXCEPT ![c] = "f_add"]
                 /\ UNCHANGED << ret, failsDone >>
            ELSE /\ call' = [call EXCEPT ![c] = NoCall]
                 /\ pc' = [pc EXCEPT ![c] = "idle"]
                 /\ ret' = [ st |-> call[c].st, worked |-> call[c].worked + 1,
                             wres |-> o.res, werr |-> o.err, res |-> o.res, err |-> Nil ]
                 /\ UNCHANGED failsDone
    /\ UNCHANGED << state, failureCount, halfOpenFailureCount, halfOpenSuccessCount,
                    cfgVars, mu, timers, calls, fired >>

\* ---------------------------------------------------------------- failure
\* Mutant of FailureAdd: the increment is not atomic; it adds one to the
\* count as it stood when the last call returned, so that of two callers
\* failing at the same time one increment is lost.
FailureAddLosesUpdate(c) ==
    /\ pc[c] = "f_add"
    /\ failureCount' = failsDone + 1
    /\ Goto(c, "f_load")
    /\ UNCHANGED << state, halfOpenFailureCount, halfOpenSuccessCount,
                    cfgVars, mu, timers, calls, fired >>

\* failure, line 184: atomic.AddUint32(&failureCount, 1)
FailureAdd(c) ==
    /\ pc[c] = "f_add"
    /\ failureCount' = failureCount + 1
    /\ Goto(c, "f_load")
    /\ UNCHANGED << state, halfOpenFailureCount, halfOpenSuccessCount,
                    cfgVars, mu, timers, calls, fired >>

\* Mutant of FailureLoad: the threshold test is off by one (> for >=).
FailureLoadOffByOne(c) ==
    /\ pc[c] = "f_load"
    /\ IF failureCount > failureThreshold
       THEN Goto(c, "f_set")
       ELSE Return(c, call[c].wres, call[c].werr)
    /\ UNCHANGED << state, failureCount, halfOpenFailureCount, halfOpenSuccessCount,
                    cfgVars, mu, timers, calls, fired >>

\* failure, line 185: if atomic.LoadUint32(&failureCount) >= failureThreshold
FailureLoad(c) ==
    /\ pc[c] = "f_load"
    /\ IF failureCount >= failureThreshold
       THEN Goto(c, "f_set")
       ELSE Return(c, call[c].wres, call[c].werr)
    /\ UNCHANGED << state, failureCount, halfOpenFailureCount, halfOpenSuccessCount,
                    cfgVars, mu, timers, calls, fired >>

\* failure, line 186: br.setState(stateOpen)
FailureSetOpen(c) ==
    /\ pc[c] = "f_set"
    /\ setState(stateOpen)
    /\ Goto(c, "f_arm")
    /\ UNCHANGED << failureCount, halfOpenFailureCount, halfOpenSuccessCount,
                    cfgVars, timers, calls, fired >>

\* Mutant of startRetry: no retry goroutine is started.
startRetryForgotten == timers' = timers

\* startRetry, lines 71-76: go func() { time.Sleep(...); ... }()
startRetry == timers' = timers + 1

\* Mutant of FailureArm: Execute returns the zero value beside the error
\* instead of the value work returned.
FailureArmReturnsZero(c) ==
    /\ pc[c] = "f_arm"
    /\ timers' = timers + 1
    /\ Return(c, 0, call[c].werr)
    /\ UNCHANGED << state, failureCount, halfOpenFailureCount, halfOpenSuccessCount,
                    cfgVars, mu, calls, fired >>

\* failure, line 187: br.startRetry(); then Execute returns res, err (149)
FailureArm(c) ==
    /\ pc[c] = "f_arm"
    /\ startRetry
    /\ Return(c, call[c].wres, call[c].werr)
    /\ UNCHANGED << state, failureCount, halfOpenFailureCount, halfOpenSuccessCount,
                    cfgVars, mu, calls, fired >>

\* ---------------------------------------------------- recordHalfOpenResult
\* recordHalfOpenResult, lines 157-159: if br.getState() != stateHalfOpen
\* { return }; Execute then returns res, err (lines 141, 144).
RecordGetState(c) ==
    /\ pc[c] = "r_get"
    /\ getStateLock
    /\ IF getState # stateHalfOpen
       THEN Return(c, call[c].wres, call[c].werr)
       ELSE Goto(c, "r_add")
    /\ UNCHANGED << state, failureCount, halfOpenFailureCount, halfOpenSuccessCount,
                    cfgVars, timers, calls, fired >>

\* recordHalfOpenResult, lines 160-164: atomic.AddUint32 on the counter
\* that matches the outcome (success is err == nil, lines 139-143).
RecordAdd(c) ==
    /\ pc[c] = "r_add"
    /\ IF call[c].werr = Nil
       THEN /\ halfOpenSuccessCount' = halfOpenSuccessCount + 1
            /\ UNCHANGED halfOpenFailureCount
       ELSE /\ halfOpenFailureCount' = halfOpenFailureCount + 1
            /\ UNCHANGED halfOpenSuccessCount
    /\ pc' = [pc EXCEPT ![c] = "r_loadf"]
    /\ UNCHANGED call
    /\ UNCHANGED << state, failureCount, cfgVars, mu, timers, ret, calls, failsDone, fired >>

\* recordHalfOpenResult, line 166: fail := atomic.LoadUint32(&halfOpenFailureCount)
RecordLoadFail(c) ==
    /\ pc[c] = "r_loadf"
    /\ pc' = [pc EXCEPT ![c] = "r_loads"]
    /\ call' = [call EXCEPT ![c].fail = halfOpenFailureCount]
    /\ UNCHANGED << state, failureCount, halfOpenFailureCount, halfOpenSuccessCount,
                    cfgVars, mu, timers, ret, calls, failsDone, fired >>

\* The window is full: fail+succ == br.counter.halfOpenMaxProbes (line 169)
WindowFull(fail, succ) == fail + succ = halfOpenMaxProbes

\* The window reopens the breaker (lines 170-171)
Reopens(fail) ==
    FailurePercent(fail, halfOpenMaxProbes) >= halfOpenMaxFailurePercent

\* recordHalfOpenResult, lines 167-171: succ := atomic.LoadUint32(...), then
\* the window test and the choice of the branch (no shared access).
RecordLoadSucc(c) ==
    /\ pc[c] = "r_loads"
    /\ LET succ == halfOpenSuccessCount
           fail == call[c].fail
       IN IF WindowFull(fail, succ)
          THEN /\ pc' = [pc EXCEPT ![c] = IF Reopens(fail) THEN "r_open" ELSE "r_zero"]
               /\ call' = [call EXCEPT ![c].succ = succ]
               /\ UNCHANGED << ret, failsDone >>
          ELSE Return(c, call[c].wres, call[c].werr)
    /\ UNCHANGED << state, failureCount, halfOpenFailureCount, halfOpenSuccessCount,
                    cfgVars, mu, timers, calls, fired >>

\* recordHalfOpenResult, line 172: br.setState(stateOpen)
RecordSetOpen(c) ==
    /\ pc[c] = "r_open"
    /\ setState(stateOpen)
    /\ pc' = [pc EXCEPT ![c] = "r_arm"]
    /\ call' = [call EXCEPT ![c].decided = stateOpen]
    /\ UNCHANGED << failureCount, halfOpenFailureCount, halfOpenSuccessCount,
                    cfgVars, timers, ret, calls, failsDone, fired >>

\* recordHalfOpenResult, line 173: br.startRetry()
RecordArm(c) ==
    /\ pc[c] = "r_arm"
    /\ startRetry
    /\ pc' = [pc EXCEPT ![c] = "r_clrf"]
    /\ UNCHANGED call
    /\ UNCHANGED << state, failureCount, halfOpenFailureCount, halfOpenSuccessCount,
                    cfgVars, mu, ret, calls, failsDone, fired >>

\* recordHalfOpenResult, line 175: atomic.StoreUint32(&failureCount, 0)
RecordZeroFailures(c) ==
    /\ pc[c] = "r_zero"
    /\ failureCount' = 0
    /\ Goto(c, "r_close")
    /\ UNCHANGED << state, halfOpenFailureCount, halfOpenSuccessCount,
                    cfgVars, mu, timers, calls, fired >>

\* recordHalfOpenResult, line 176: br.setState(stateClosed)
RecordSetClosed(c) ==
    /\ pc[c] = "r_close"
    /\ setState(stateClosed)
    /\ pc' = [pc EXCEPT ![c] = "r_clrf"]
    /\ call' = [call EXCEPT ![c].decided = stateClosed]
    /\ UNCHANGED << failureCount, halfOpenFailureCount, halfOpenSuccessCount,
                    cfgVars, timers, ret, calls, failsDone, fired >>

\* recordHalfOpenResult, line 178: atomic.StoreUint32(&halfOpenFailureCount, 0)
RecordClearFail(c) ==
    /\ pc[c] = "r_clrf"
    /\ halfOpenFailureCount' = 0
    /\ Goto(c, "r_clrs")
    /\ UNCHANGED << state, failureCount, halfOpenSuccessCount,
                    cfgVars, mu, timers, calls, fired >>

\* recordHalfOpenResult, line 179: atomic.StoreUint32(&halfOpenSuccessCount, 0);
\* Execute then returns res, err (lines 141, 144).
RecordClearSucc(c) ==
    /\ pc[c] = "r_clrs"
    /\ halfOpenSuccessCount' = 0
    /\ Return(c, call[c].wres, call[c].werr)
    /\ UNCHANGED << state, failureCount, halfOpenFailureCount,
                    cfgVars, mu, timers, calls, fired >>

\* Mutant of TimerFire: the retry goroutine also starts a fresh probe window.
TimerFireResetsWindow ==
    /\ timers > 0
    /\ timers' = timers - 1
    /\ setState(stateHalfOpen)
    /\ fired' = fired + 1
    /\ halfOpenFailureCount' = 0
    /\ halfOpenSuccessCount' = 0
    /\ UNCHANGED << failureCount, cfgVars, pc, call, ret, calls, failsDone >>

\* The retry goroutine, lines 73-74: the sleep ends, br.setState(stateHalfOpen)
TimerFire ==
    /\ timers > 0
    /\ timers' = timers - 1
    /\ setState(stateHalfOpen)
    /\ fired' = fired + 1
    /\ UNCHANGED << failureCount, halfOpenFailureCount, halfOpenSuccessCount,
                    cfgVars, pc, call, ret, calls, failsDone >>

\* stateToString, lines 89-100; the default case prints the number
\* (fmt.Sprintf("Unknown(%d)", state), line 99).
stateToString(s) ==
    CASE s = stateClosed -> "Closed"
      [] s = stateOpen -> "Open"
      [] s = stateHalfOpen -> "Half-Open"
      [] OTHER -> "Unknown(" \o ToString(s) \o ")"

\* What the steps of LogState leave alone beside mu (LogState writes no
\* field of the breaker).
logUnchanged == << state, failureCount, halfOpenFailureCount, halfOpenSuccessCount,
                  failureThreshold, halfOpenMaxProbes, halfOpenMaxFailurePercent,
                  retryInterval, timeout, cfg, built, workOutcomes, callLimit,
                  breakerVars, timers, pc, call, ret, calls, failsDone, fired, lk >>

\* LogState, line 104: st := br.getState() (under the read lock, which is
\* released before the counters are loaded).
LogGetState ==
    /\ log.pc = "idle"
    /\ getStateLock
    /\ log' = [NoLog EXCEPT !.pc = "l_failures", !.st = getState]
    /\ UNCHANGED logUnchanged

\* LogState, line 105: failures := atomic.LoadUint32(&br.counter.failureCount)
LogLoadFailures ==
    /\ log.pc = "l_failures"
    /\ log' = [log EXCEPT !.pc = "l_hFail", !.failures = failureCount]
    /\ UNCHANGED << logUnchanged, mu >>

\* LogState, line 106: hFail := atomic.LoadUint32(&br.counter.halfOpenFailureCount)
LogLoadHalfOpenFailures ==
    /\ log.pc = "l_hFail"
    /\ log' = [log EXCEPT !.pc = "l_hSucc", !.hFail = halfOpenFailureCount]
    /\ UNCHANGED << logUnchanged, mu >>

\* LogState, line 107: hSucc := atomic.LoadUint32(&br.counter.halfOpenSuccessCount)
LogLoadHalfOpenSuccesses ==
    /\ log.pc = "l_hSucc"
    /\ log' = [log EXCEPT !.pc = "l_render", !.hSucc = halfOpenSuccessCount]
    /\ UNCHANGED << logUnchanged, mu >>

\* The rows LogState prints from its locals (lines 113-122): the state as
\* read at line 104 and the three counters as loaded at lines 105-107.
LogRows ==
    [ State |-> stateToString(log.st),
      Failures |-> log.failures,
      HalfOpenFailures |-> log.hFail,
      HalfOpenSuccesses |-> log.hSucc ]

\* LogState, lines 109-125: the table is built from the locals and
\* rendered; LogState returns.
LogRender ==
    /\ log.pc = "l_render"
    /\ log' = NoLog
    /\ UNCHANGED << logUnchanged, mu >>

\* LogState, lines 103-125, one step at a time: the four reads happen at
\* four different moments and other goroutines run in between.
LogState ==
    \/ LogGetState
    \/ LogLoadFailures
    \/ LogLoadHalfOpenFailures
    \/ LogLoadHalfOpenSuccesses
    \/ LogRender

\* One step of caller c's Execute.
Execute(c) ==
    \/ Begin(c)
    \/ Work(c)
    \/ FailureAdd(c)
    \/ FailureLoad(c)
    \/ FailureSetOpen(c)
    \/ FailureArm(c)
    \/ RecordGetState(c)
    \/ RecordAdd(c)
    \/ RecordLoadFail(c)
    \/ RecordLoadSucc(c)
    \/ RecordSetOpen(c)
    \/ RecordArm(c)
    \/ RecordZeroFailures(c)
    \/ RecordSetClosed(c)
    \/ RecordClearFail(c)
    \/ RecordClearSucc(c)

\* Any number of goroutines call Execute concurrently; timers fire on their own.
Next ==
    \/ \E c \in Callers : Execute(c)
    \/ TimerFire
    \/ LogState

Spec == Init /\ [][Next]_vars

\* One caller at a time: a single goroutine issues the calls one after the
\* other, while the retry timers still fire on their own.
InitSeq ==
    /\ InitBreaker
    /\ callLimit = MaxSeqCalls
    /\ workOutcomes = WorkOutcomes

NextSeq ==
    \/ Execute(1)
    \/ TimerFire
    \/ LogState

SpecSeq == InitSeq /\ [][NextSeq]_vars

\* The step of a caller that starts the retry goroutine (go func() of line 72).
StartRetryStep(c) ==
    \/ FailureArm(c)
    \/ RecordArm(c)

\* Fair scheduling of the retry timers: a goroutine that has set the state
\* to Open goes on to startRetry (no blocking operation lies between the
\* two), and a sleeping retry goroutine wakes up after its interval.
\* Nothing is assumed of the callers otherwise: work may never return.
InitFair ==
    /\ InitBreaker
    /\ callLimit = MaxFairCalls
    /\ workOutcomes = WorkOutcomes

\* The callers and the retry timers, with nobody calling LogState: LogState
\* writes no field of the breaker and never holds the lock across a step,
\* so it neither enables nor disables a step of the others.
NextFair ==
    \/ \E c \in Callers : Execute(c)
    \/ TimerFire

FairSpec ==
    /\ InitFair
    /\ [][NextFair]_vars
    /\ WF_vars(TimerFire)
    /\ \A c \in Callers : WF_vars(StartRetryStep(c))

\* A work function that may also fail with an error of the very message
\* Execute uses when it short-circuits (errors.New("circuit breaker is
\* open"), or the error of an inner breaker's Execute passed on).
AnyErrOutcomes == WorkOutcomes \cup { [res |-> 0, err |-> ErrOpen] }

InitAnyErr ==
    /\ InitBreaker
    /\ callLimit = MaxSeqCalls
    /\ workOutcomes = AnyErrOutcomes

SpecAnyErr == InitAnyErr /\ [][NextSeq]_vars

\* A breaker built as in the README: FailureThreshold and RetryInterval
\* given, the half-open fields left at 0 so that the defaults (10 probes,
\* 30 percent) apply; one caller at a time.
DefaultHalfOpenConfigs ==
    { [ FailureThreshold |-> t, RetryInterval |-> 2000, HalfOpenMaxProbes |-> 0,
        HalfOpenMaxFailurePercent |-> 0, Timeout |-> 0 ] : t \in Thresholds }

InitDefault ==
    /\ \E c \in DefaultHalfOpenConfigs :
          /\ cfg = applyDefaults(c)
          /\ BreakerOf(applyDefaults(c))
    /\ NoCallsYet
    /\ NoVariant
    /\ callLimit = MaxDefaultCalls
    /\ workOutcomes = WorkOutcomes

SpecDefault == InitDefault /\ [][NextSeq]_vars

\* ----------------------------------------------------- one probe window
\* The decision of one probe window, for windows up to MaxWindow probes.
\* The breaker (failureThreshold 1) was opened by one failing call, its
\* retry timer has fired, and n probes were run one after the other, f of
\* them failing; the n-th has just been counted (lines 160-164) and its
\* recordHalfOpenResult is about to load the counters.
WindowPercents == {1, defaultHalfOpenMaxFailurePercent, 58, 100}

InitWindow ==
    \E n \in 1..MaxWindow, p \in WindowPercents, o \in WorkOutcomes :
      \E f \in 0..n :
        /\ o.err = Nil => f < n
        /\ o.err # Nil => f > 0
        /\ state = stateHalfOpen
        /\ failureCount = 1
        /\ halfOpenFailureCount = f
        /\ halfOpenSuccessCount = n - f
        /\ failureThreshold = 1
        /\ retryInterval = defaultRetryInterval
        /\ halfOpenMaxProbes = n
        /\ halfOpenMaxFailurePercent = p
        /\ timeout = 0
        /\ mu = 0
        /\ cfg = [ FailureThreshold |-> 1,
                   RetryInterval |-> defaultRetryInterval,
                   HalfOpenMaxProbes |-> n,
                   HalfOpenMaxFailurePercent |-> p,
                   Timeout |-> 0 ]
        /\ built = "yes"
        /\ NoVariant
        /\ log = NoLog
        /\ lk = NoLocks
        /\ workOutcomes = WorkOutcomes
        /\ timers = 0
        /\ fired = 1
        /\ calls = n + 1
        /\ callLimit = n + 1
        /\ failsDone = IF o.err = Nil THEN f + 1 ELSE f
        /\ pc = [c \in Callers |-> IF c = 1 THEN "r_loadf" ELSE "idle"]
        /\ call = [c \in Callers |->
                     IF c = 1
                     THEN [NoCall EXCEPT !.st = stateHalfOpen, !.worked = 1,
                                         !.wres = o.res, !.werr = o.err]
                     ELSE NoCall]
        /\ ret = IF n = 1
                 THEN [ st |-> stateClosed, worked |-> 1, wres |-> 3,
                        werr |-> "service broke", res |-> 3, err |-> "service broke" ]
                 ELSE IF (o.err = Nil /\ f > 0) \/ (o.err # Nil /\ f > 1)
                 THEN [ st |-> stateHalfOpen, worked |-> 1, wres |-> 3,
                        werr |-> "service broke", res |-> 3, err |-> "service broke" ]
                 ELSE [ st |-> stateHalfOpen, worked |-> 1, wres |-> 7,
                        werr |-> Nil, res |-> 7, err |-> Nil ]

\* The rest of recordHalfOpenResult (lines 166-181) for the last probe, and
\* the retry timer a reopening window arms.
NextWindow ==
    \/ RecordLoadFail(1)
    \/ RecordLoadSucc(1)
    \/ RecordSetOpen(1)
    \/ RecordArm(1)
    \/ RecordZeroFailures(1)
    \/ RecordSetClosed(1)
    \/ RecordClearFail(1)
    \/ RecordClearSucc(1)
    \/ TimerFire

SpecWindow == InitWindow /\ [][NextWindow]_vars

\* ------------------------------------------- setState and getState, by statement
\* setState and getState one statement at a time: Lock, the assignment and
\* Unlock of lines 79-81, RLock, the read and the deferred RUnlock of lines
\* 85-87 are separate steps, and other goroutines run in between.  mu is 0
\* when free, -1 while a writer holds it, and the number of readers
\* otherwise.  Lock waits until mu is free; RLock waits while a writer holds
\* it.
lockCfg == << failureThreshold, halfOpenMaxProbes, halfOpenMaxFailurePercent,
             retryInterval, timeout, cfg, built, workOutcomes, callLimit,
             breakerVars >>

\* The argument of the setState call goroutine g is about to make: failure
\* (line 186) and recordHalfOpenResult (lines 172, 176) for a caller, the
\* retry goroutine whose sleep has ended (line 74); -1 if g stands at no
\* call of setState.
setStateArg(g) ==
    IF g = retryGoroutine
    THEN IF timers > 0 THEN stateHalfOpen ELSE -1
    ELSE IF g = logGoroutine
    THEN -1
    ELSE CASE pc[g] = "f_set" -> stateOpen
           [] pc[g] = "r_open" -> stateOpen
           [] pc[g] = "r_close" -> stateClosed
           [] OTHER -> -1

\* Goroutine g stands at a call of getState: Execute (line 134, a new call),
\* recordHalfOpenResult (line 157) or LogState (line 104).
getStateSite(g) ==
    IF g = retryGoroutine
    THEN FALSE
    ELSE IF g = logGoroutine
    THEN log.pc = "idle"
    ELSE (pc[g] = "idle" /\ calls < callLimit) \/ pc[g] = "r_get"

\* Mutant of setStateLock: br.mu.Lock() is missing, so the assignment of
\* line 80 is made without the lock.
setStateNoLock(g) ==
    /\ lk[g].ph = "out"
    /\ setStateArg(g) # -1
    /\ mu' = mu
    /\ lk' = [lk EXCEPT ![g] = [ph |-> "locked", val |-> setStateArg(g)]]
    /\ timers' = IF g = retryGoroutine THEN timers - 1 ELSE timers
    /\ UNCHANGED << state, failureCount, halfOpenFailureCount, halfOpenSuccessCount,
                    lockCfg, log, pc, call, ret, calls, failsDone, fired >>

\* setState, line 79: br.mu.Lock().  For the retry goroutine this is the
\* first thing it does when its sleep ends (lines 73-74).
setStateLock(g) ==
    /\ lk[g].ph = "out"
    /\ setStateArg(g) # -1
    /\ mu = 0
    /\ mu' = -1
    /\ lk' = [lk EXCEPT ![g] = [ph |-> "locked", val |-> setStateArg(g)]]
    /\ timers' = IF g = retryGoroutine THEN timers - 1 ELSE timers
    /\ UNCHANGED << state, failureCount, halfOpenFailureCount, halfOpenSuccessCount,
                    lockCfg, log, pc, call, ret, calls, failsDone, fired >>

\* setState, line 80: br.state = state
setStateStore(g) ==
    /\ lk[g].ph = "locked"
    /\ state' = lk[g].val
    /\ lk' = [lk EXCEPT ![g].ph = "stored"]
    /\ UNCHANGED << failureCount, halfOpenFailureCount, halfOpenSuccessCount,
                    lockCfg, log, mu, timers, pc, call, ret, calls, failsDone, fired >>

\* setState, line 81: br.mu.Unlock(); setState returns and the goroutine
\* goes on as in FailureSetOpen, RecordSetOpen, RecordSetClosed and
\* TimerFire.
setStateUnlock(g) ==
    /\ lk[g].ph = "stored"
    /\ mu' = 0
    /\ lk' = [lk EXCEPT ![g] = [ph |-> "out", val |-> -1]]
    /\ IF g = retryGoroutine
       THEN /\ fired' = fired + 1
            /\ UNCHANGED << pc, call, ret, failsDone >>
       ELSE /\ UNCHANGED fired
            /\ IF pc[g] = "f_set"
               THEN Goto(g, "f_arm")
               ELSE /\ pc' = [pc EXCEPT ![g] = IF pc[g] = "r_open" THEN "r_arm" ELSE "r_clrf"]
                    /\ call' = [call EXCEPT ![g].decided = lk[g].val]
                    /\ UNCHANGED << ret, failsDone >>
    /\ UNCHANGED << state, failureCount, halfOpenFailureCount, halfOpenSuccessCount,
                    lockCfg, log, timers, calls >>

\* getState, line 85: br.mu.RLock().  A caller at line 134 starts a new
\* call of Execute with it.
getStateRLock(g) ==
    /\ lk[g].ph = "out"
    /\ getStateSite(g)
    /\ mu >= 0
    /\ mu' = mu + 1
    /\ lk' = [lk EXCEPT ![g].ph = "rlocked"]
    /\ calls' = IF g \in Callers /\ pc[g] = "idle" THEN calls + 1 ELSE calls
    /\ UNCHANGED << state, failureCount, halfOpenFailureCount, halfOpenSuccessCount,
                    lockCfg, log, timers, pc, call, ret, failsDone, fired >>

\* getState, line 87: the value of br.state that return will hand back
getStateRead(g) ==
    /\ lk[g].ph = "rlocked"
    /\ lk' = [lk EXCEPT ![g] = [ph |-> "read", val |-> state]]
    /\ UNCHANGED << state, failureCount, halfOpenFailureCount, halfOpenSuccessCount,
                    lockCfg, log, mu, timers, pc, call, ret, calls, failsDone, fired >>

\* getState, line 86: the deferred br.mu.RUnlock() runs and getState
\* returns the value read; the goroutine goes on with it as in Begin,
\* RecordGetState and LogGetState.
getStateRUnlock(g) ==
    /\ lk[g].ph = "read"
    /\ mu' = mu - 1
    /\ lk' = [lk EXCEPT ![g] = [ph |-> "out", val |-> -1]]
    /\ LET s == lk[g].val
       IN IF g = logGoroutine
          THEN /\ log' = [NoLog EXCEPT !.pc = "l_failures", !.st = s]
               /\ UNCHANGED << pc, call, ret, failsDone >>
          ELSE /\ UNCHANGED log
               /\ IF pc[g] = "idle"
                  THEN IF s = stateOpen
                       THEN /\ UNCHANGED << pc, call, failsDone >>
                            /\ ret' = [NoRet EXCEPT !.st = s, !.res = 0, !.err = ErrOpen]
                       ELSE /\ pc' = [pc EXCEPT ![g] = "work"]
                            /\ call' = [call EXCEPT ![g].st = s]
                            /\ UNCHANGED << ret, failsDone >>
                  ELSE IF s # stateHalfOpen
                       THEN Return(g, call[g].wres, call[g].werr)
                       ELSE Goto(g, "r_add")
    /\ UNCHANGED << state, failureCount, halfOpenFailureCount, halfOpenSuccessCount,
                    lockCfg, timers, calls, fired >>

\* The steps of Execute and of LogState that touch neither the state field
\* nor the lock.
LockFreeStep(c) ==
    \/ Work(c)
    \/ FailureAdd(c)
    \/ FailureLoad(c)
    \/ FailureArm(c)
    \/ RecordAdd(c)
    \/ RecordLoadFail(c)
    \/ RecordLoadSucc(c)
    \/ RecordArm(c)
    \/ RecordZeroFailures(c)
    \/ RecordClearFail(c)
    \/ RecordClearSucc(c)

InitLock ==
    /\ InitBreaker
    /\ callLimit = MaxLockCalls
    /\ workOutcomes = WorkOutcomes

\* Callers of Execute, retry goroutines and a goroutine calling LogState,
\* interleaved at every statement of setState and getState.
NextLock ==
    \/ \E g \in Goroutines : setStateLock(g)
    \/ \E g \in Goroutines : setStateStore(g)
    \/ \E g \in Goroutines : setStateUnlock(g)
    \/ \E g \in Goroutines : getStateRLock(g)
    \/ \E g \in Goroutines : getStateRead(g)
    \/ \E g \in Goroutines : getStateRUnlock(g)
    \/ \E c \in Callers : LockFreeStep(c)
    \/ LogLoadFailures
    \/ LogLoadHalfOpenFailures
    \/ LogLoadHalfOpenSuccesses
    \/ LogRender

SpecLock == InitLock /\ [][NextLock]_vars

\* ------------------------------------------------------------ construction
\* The BreakerConfig values InitBreaker is called with: every field at 0,
\* inside its domain and (where there is one) outside it.
ConfigInputs ==
    [ FailureThreshold : {0, 1, 7},
      RetryInterval : {-1, 0, 2000},
      HalfOpenMaxProbes : {0, 1, 4},
      HalfOpenMaxFailurePercent : {0, 1, 100, 101},
      Timeout : {0, 3000} ]

\* The nil *BreakerConfig: a pointer to no configuration, with no field to read.
NilConfig == [ isNil |-> TRUE ]

\* Before InitBreaker is called: the configuration (or nil) it will be given.
InitCfg ==
    /\ cfg \in ConfigInputs \cup {NilConfig}
    /\ built = "no"
    /\ state = 0
    /\ failureCount = 0
    /\ halfOpenFailureCount = 0
    /\ halfOpenSuccessCount = 0
    /\ failureThreshold = 0
    /\ retryInterval = 0
    /\ halfOpenMaxProbes = 0
    /\ halfOpenMaxFailurePercent = 0
    /\ timeout = 0
    /\ mu = 0
    /\ workOutcomes = WorkOutcomes
    /\ callLimit = 0
    /\ NoCallsYet
    /\ NoVariant

\* InitBreaker(name, cfg), lines 196-213.  applyDefaults(cfg) reads
\* c.FailureThreshold first (line 39): with a nil cfg that is a nil pointer
\* dereference, the runtime panics and no breaker is returned.
Construct ==
    /\ built = "no"
    /\ IF cfg = NilConfig
       THEN /\ built' = "panic"
            /\ UNCHANGED << cfg, state, failureThreshold, retryInterval,
                            halfOpenMaxProbes, halfOpenMaxFailurePercent, timeout >>
       ELSE LET d == applyDefaults(cfg)
            IN /\ cfg' = d
               /\ state' = stateClosed
               /\ failureThreshold' = d.FailureThreshold
               /\ retryInterval' = d.RetryInterval
               /\ halfOpenMaxProbes' = d.HalfOpenMaxProbes
               /\ halfOpenMaxFailurePercent' = d.HalfOpenMaxFailurePercent
               /\ timeout' = d.Timeout
               /\ built' = "yes"
    /\ UNCHANGED << failureCount, halfOpenFailureCount, halfOpenSuccessCount, mu,
                    workOutcomes, callLimit, timers, pc, call, ret, calls,
                    failsDone, fired, breakerVars, log, lk >>

NextCfg == Construct

SpecCfg == InitCfg /\ [][NextCfg]_vars

\* ------------------------------- package breaker, success-threshold variant
\* src/breaker/breaker.go, second definition (lines 170-280): in HalfOpen
\* the successes are counted against Counter.SuccessThreshold.  One
\* goroutine calls Execute, one call after the other; the retry goroutines
\* fire on their own.
Closed == 0
Open == 1
HalfOpen == 2

SuccessThresholds == 0..MaxSuccessThreshold

\* What the steps of this Breaker leave alone.
otherVars == << sparkgapVars, workOutcomes, callLimit, FailureThreshold,
               SuccessThreshold, HalfStateTotalRetryCount, HalfStateFailureCount,
               HalfStateSuccessCount, HalfStateFailurePercentage, log, lk >>

\* The package sparkgap breaker is not in use.
NoSparkgap ==
    /\ cfg = NilConfig
    /\ built = "no"
    /\ state = 0
    /\ failureCount = 0
    /\ halfOpenFailureCount = 0
    /\ halfOpenSuccessCount = 0
    /\ failureThreshold = 0
    /\ retryInterval = 0
    /\ halfOpenMaxProbes = 0
    /\ halfOpenMaxFailurePercent = 0
    /\ timeout = 0

\* InitBreaker (lines 270-280) returns State Closed and zero counters; the
\* tests then assign Counter.FailureThreshold and Counter.SuccessThreshold
\* (InitBreaker itself leaves SuccessThreshold at 0).
InitVariant ==
    /\ State = Closed
    /\ Failure = 0
    /\ Success = 0
    /\ FailureThreshold \in Thresholds
    /\ SuccessThreshold \in SuccessThresholds
    /\ HalfStateTotalRetryCount = 0
    /\ HalfStateFailureCount = 0
    /\ HalfStateSuccessCount = 0
    /\ HalfStateFailurePercentage = 0
    /\ mu = 0
    /\ NoSparkgap
    /\ NoCallsYet
    /\ callLimit = MaxVariantCalls
    /\ workOutcomes = WorkOutcomes

\* getState, lines 218-222 (under the read lock, see getStateLock).
BreakerGetState == State

\* setState, lines 212-216: Lock, br.State = state, Unlock.
BreakerSetState(s) ==
    /\ mu = 0
    /\ State' = s
    /\ mu' = 0

\* Execute, lines 226-228: switch br.getState(); case Open returns at once.
BreakerBegin(c) ==
    /\ pc[c] = "idle"
    /\ getStateLock
    /\ calls < callLimit
    /\ calls' = calls + 1
    /\ LET s == BreakerGetState
       IN IF s = Open
          THEN /\ UNCHANGED << pc, call >>
               /\ ret' = [NoRet EXCEPT !.st = s, !.res = 0, !.err = ErrOpen]
          ELSE /\ pc' = [pc EXCEPT ![c] = "work"]
               /\ call' = [call EXCEPT ![c].st = s]
               /\ UNCHANGED ret
    /\ UNCHANGED << State, Failure, Success, otherVars, timers, failsDone, fired >>

\* Execute, lines 230 and 238: res, err := fn().  An error goes to
\* failure() in both states; a success goes to success() in HalfOpen and
\* returns at once in Closed (line 243).
BreakerWork(c) ==
    /\ pc[c] = "work"
    /\ \E o \in workOutcomes :
         LET ran == [call EXCEPT ![c].worked = @ + 1, ![c].wres = o.res, ![c].werr = o.err]
         IN IF o.err # Nil
            THEN /\ call' = ran
                 /\ pc' = [pc EXCEPT ![c] = "bf_get"]
                 /\ UNCHANGED << ret, failsDone >>
            ELSE IF call[c].st = HalfOpen
            THEN /\ call' = ran
                 /\ pc' = [pc EXCEPT ![c] = "bs_get"]
                 /\ UNCHANGED << ret, failsDone >>
            ELSE /\ call' = [call EXCEPT ![c] = NoCall]
                 /\ pc' = [pc EXCEPT ![c] = "idle"]
                 /\ ret' = [ st |-> call[c].st, worked |-> call[c].worked + 1,
                             wres |-> o.res, werr |-> o.err, res |-> o.res, err |-> Nil ]
                 /\ UNCHANGED failsDone
    /\ UNCHANGED << State, Failure, Success, otherVars, mu, timers, calls, fired >>

\* success, lines 249-251: if br.getState() != HalfOpen { return }
BreakerSuccessGetState(c) ==
    /\ pc[c] = "bs_get"
    /\ getStateLock
    /\ IF BreakerGetState # HalfOpen
       THEN Return(c, call[c].wres, call[c].werr)
       ELSE Goto(c, "bs_add")
    /\ UNCHANGED << State, Failure, Success, otherVars, timers, calls, fired >>

\* success, line 252: atomic.AddUint32(&br.Counter.Success, 1)
BreakerSuccessAdd(c) ==
    /\ pc[c] = "bs_add"
    /\ Success' = Success + 1
    /\ Goto(c, "bs_load")
    /\ UNCHANGED << State, Failure, otherVars, mu, timers, calls, fired >>

\* Mutant of BreakerSuccessLoad: the threshold test is == for >=.
BreakerSuccessLoadExact(c) ==
    /\ pc[c] = "bs_load"
    /\ IF Success = SuccessThreshold
       THEN Goto(c, "bs_close")
       ELSE Return(c, call[c].wres, call[c].werr)
    /\ UNCHANGED << State, Failure, Success, otherVars, mu, timers, calls, fired >>

\* success, line 253: if atomic.LoadUint32(&Success) >= SuccessThreshold
BreakerSuccessLoad(c) ==
    /\ pc[c] = "bs_load"
    /\ IF Success >= SuccessThreshold
       THEN Goto(c, "bs_close")
       ELSE Return(c, call[c].wres, call[c].werr)
    /\ UNCHANGED << State, Failure, Success, otherVars, mu, timers, calls, fired >>

\* success, line 254: br.setState(Closed)
BreakerSuccessSetClosed(c) ==
    /\ pc[c] = "bs_close"
    /\ BreakerSetState(Closed)
    /\ Goto(c, "bs_clr")
    /\ UNCHANGED << Failure, Success, otherVars, timers, calls, fired >>

\* success, line 255: atomic.StoreUint32(&br.Counter.Success, 0); Execute
\* then returns res, err (line 236).
BreakerSuccessClear(c) ==
    /\ pc[c] = "bs_clr"
    /\ Success' = 0
    /\ Return(c, call[c].wres, call[c].werr)
    /\ UNCHANGED << State, Failure, otherVars, mu, timers, calls, fired >>

\* failure, line 260: if br.getState() == HalfOpen
BreakerFailureGetState(c) ==
    /\ pc[c] = "bf_get"
    /\ getStateLock
    /\ Goto(c, IF BreakerGetState = HalfOpen THEN "bf_open" ELSE "bf_add")
    /\ UNCHANGED << State, Failure, Success, otherVars, timers, calls, fired >>

\* Mutant of BreakerFailureReopen: a failed probe also starts the count of
\* successes afresh.
BreakerFailureReopenResetsSuccess(c) ==
    /\ pc[c] = "bf_open"
    /\ BreakerSetState(Open)
    /\ Success' = 0
    /\ Goto(c, "bf_add")
    /\ UNCHANGED << Failure, otherVars, timers, calls, fired >>

\* failure, line 261: br.setState(Open)
BreakerFailureReopen(c) ==
    /\ pc[c] = "bf_open"
    /\ BreakerSetState(Open)
    /\ Goto(c, "bf_add")
    /\ UNCHANGED << Failure, Success, otherVars, timers, calls, fired >>

\* failure, line 263: atomic.AddUint32(&br.Counter.Failure, 1)
BreakerFailureAdd(c) ==
    /\ pc[c] = "bf_add"
    /\ Failure' = Failure + 1
    /\ Goto(c, "bf_load")
    /\ UNCHANGED << State, Success, otherVars, mu, timers, calls, fired >>

\* failure, line 264: if atomic.LoadUint32(&Failure) >= FailureThreshold
BreakerFailureLoad(c) ==
    /\ pc[c] = "bf_load"
    /\ IF Failure >= FailureThreshold
       THEN Goto(c, "bf_set")
       ELSE Return(c, call[c].wres, call[c].werr)
    /\ UNCHANGED << State, Failure, Success, otherVars, mu, timers, calls, fired >>

\* failure, line 265: br.State = Open, written without the lock.  With one
\* caller no other goroutine accesses State at this point (every timer
\* armed earlier has fired before the call read the state), so the write
\* is an ordinary assignment.
BreakerFailureWriteOpen(c) ==
    /\ pc[c] = "bf_set"
    /\ State' = Open
    /\ Goto(c, "bf_arm")
    /\ UNCHANGED << Failure, Success, otherVars, mu, timers, calls, fired >>

\* failure, line 266: br.startRetry(); Execute then returns res, err
\* (lines 233, 241).
BreakerFailureArm(c) ==
    /\ pc[c] = "bf_arm"
    /\ startRetry
    /\ Return(c, call[c].wres, call[c].werr)
    /\ UNCHANGED << State, Failure, Success, otherVars, mu, calls, fired >>

\* The retry goroutine, lines 206-209: the sleep ends, br.setState(HalfOpen)
BreakerTimerFire ==
    /\ timers > 0
    /\ timers' = timers - 1
    /\ BreakerSetState(HalfOpen)
    /\ fired' = fired + 1
    /\ UNCHANGED << Failure, Success, otherVars, pc, call, ret, calls, failsDone >>

\* One step of caller c's Execute on this Breaker.
BreakerExecute(c) ==
    \/ BreakerBegin(c)
    \/ BreakerWork(c)
    \/ BreakerSuccessGetState(c)
    \/ BreakerSuccessAdd(c)
    \/ BreakerSuccessLoad(c)
    \/ BreakerSuccessSetClosed(c)
    \/ BreakerSuccessClear(c)
    \/ BreakerFailureGetState(c)
    \/ BreakerFailureReopen(c)
    \/ BreakerFailureAdd(c)
    \/ BreakerFailureLoad(c)
    \/ BreakerFailureWriteOpen(c)
    \/ BreakerFailureArm(c)

NextVariant ==
    \/ BreakerExecute(1)
    \/ BreakerTimerFire

SpecVariant == InitVariant /\ [][NextVariant]_vars

\* ------------------------------- package breaker, percentage-window variant
\* src/breaker/breaker.go, first definition (lines 1-168): in HalfOpen the
\* probes are counted against Counter.HalfStateTotalRetryCount and the
\* failures among them against Counter.HalfStateFailurePercentage.  Any
\* number of goroutines call Execute; every access to the shared memory is
\* one step.
percentCfg == << sparkgapVars, workOutcomes, callLimit, FailureThreshold, Success,
                SuccessThreshold, HalfStateTotalRetryCount,
                HalfStateFailurePercentage, log, lk >>

\* InitBreaker (lines 157-168) returns State Closed and zero counters; the
\* exported fields Counter.FailureThreshold, Counter.HalfStateTotalRetryCount
\* and Counter.HalfStateFailurePercentage are then assigned by the user.
InitPercent ==
    /\ State = Closed
    /\ Failure = 0
    /\ FailureThreshold \in Thresholds
    /\ HalfStateTotalRetryCount \in ProbeWindows
    /\ HalfStateFailureCount = 0
    /\ HalfStateSuccessCount = 0
    /\ HalfStateFailurePercentage \in Percents
    /\ Success = 0
    /\ SuccessThreshold = 0
    /\ mu = 0
    /\ NoSparkgap
    /\ NoCallsYet
    /\ callLimit = MaxPercentCalls
    /\ workOutcomes = WorkOutcomes

\* getState, lines 54-58 (under the read lock, see getStateLock).
PercentGetState == State

\* setState, lines 48-52: Lock, br.State = state, Unlock.
PercentSetState(s) ==
    /\ mu = 0
    /\ State' = s
    /\ mu' = 0

\* Execute, lines 99-101: switch br.getState(); case Open returns at once.
PercentBegin(c) ==
    /\ pc[c] = "idle"
    /\ getStateLock
    /\ calls < callLimit
    /\ calls' = calls + 1
    /\ LET s == PercentGetState
       IN IF s = Open
          THEN /\ UNCHANGED << pc, call >>
               /\ ret' = [NoRet EXCEPT !.st = s, !.res = 0, !.err = ErrOpen]
          ELSE /\ pc' = [pc EXCEPT ![c] = "work"]
               /\ call' = [call EXCEPT ![c].st = s]
               /\ UNCHANGED ret
    /\ UNCHANGED << State, Failure, HalfStateFailureCount, HalfStateSuccessCount,
                    percentCfg, timers, failsDone, fired >>

\* Execute, lines 103 and 113: res, err := fn().  In HalfOpen the result
\* goes to setHalfStateCount (lines 106, 110); in Closed an error goes to
\* failure() (line 115) and a success returns at once (line 118).
PercentWork(c) ==
    /\ pc[c] = "work"
    /\ \E o \in workOutcomes :
         LET ran == [call EXCEPT ![c].worked = @ + 1, ![c].wres = o.res, ![c].werr = o.err]
         IN IF call[c].st = HalfOpen
            THEN /\ call' = ran
                 /\ pc' = [pc EXCEPT ![c] = "hs_get"]
                 /\ UNCHANGED << ret, failsDone >>
            ELSE IF o.err # Nil
            THEN /\ call' = ran
                 /\ pc' = [pc EXCEPT ![c] = "pf_get"]
                 /\ UNCHANGED << ret, failsDone >>
            ELSE /\ call' = [call EXCEPT ![c] = NoCall]
                 /\ pc' = [pc EXCEPT ![c] = "idle"]
                 /\ ret' = [ st |-> call[c].st, worked |-> call[c].worked + 1,
                             wres |-> o.res, werr |-> o.err, res |-> o.res, err |-> Nil ]
                 /\ UNCHANGED failsDone
    /\ UNCHANGED << State, Failure, HalfStateFailureCount, HalfStateSuccessCount,
                    percentCfg, mu, timers, calls, fired >>

\* setHalfStateCount, lines 124-126: if br.getState() != HalfOpen { return }
setHalfStateCountGetState(c) ==
    /\ pc[c] = "hs_get"
    /\ getStateLock
    /\ IF PercentGetState # HalfOpen
       THEN Return(c, call[c].wres, call[c].werr)
       ELSE Goto(c, "hs_addf")
    /\ UNCHANGED << State, Failure, HalfStateFailureCount, HalfStateSuccessCount,
                    percentCfg, timers, calls, fired >>

\* setHalfStateCount, line 127:
\* atomic.AddUint32(&br.Counter.HalfStateFailureCount, failureCount), where
\* failureCount is 1 for a failed probe (line 106) and 0 otherwise (line 110).
setHalfStateCountAddFailure(c) ==
    /\ pc[c] = "hs_addf"
    /\ HalfStateFailureCount' =
           HalfStateFailureCount + (IF call[c].werr # Nil THEN 1 ELSE 0)
    /\ Goto(c, "hs_adds")
    /\ UNCHANGED << State, Failure, HalfStateSuccessCount, percentCfg, mu, timers,
                    calls, fired >>

\* setHalfStateCount, line 128:
\* atomic.AddUint32(&br.Counter.HalfStateSuccessCount, successCount)
setHalfStateCountAddSuccess(c) ==
    /\ pc[c] = "hs_adds"
    /\ HalfStateSuccessCount' =
           HalfStateSuccessCount + (IF call[c].werr = Nil THEN 1 ELSE 0)
    /\ Goto(c, "hs_loadf")
    /\ UNCHANGED << State, Failure, HalfStateFailureCount, percentCfg, mu, timers,
                    calls, fired >>

\* setHalfStateCount, line 129: atomicFailure := atomic.LoadUint32(...)
setHalfStateCountLoadFailure(c) ==
    /\ pc[c] = "hs_loadf"
    /\ call' = [call EXCEPT ![c].fail = HalfStateFailureCount]
    /\ pc' = [pc EXCEPT ![c] = "hs_loads"]
    /\ UNCHANGED << State, Failure, HalfStateFailureCount, HalfStateSuccessCount,
                    percentCfg, mu, timers, ret, calls, failsDone, fired >>

\* failurePercentage of line 133:
\* uint32(float64(atomicFailure) / float64(HalfStateTotalRetryCount) * 100),
\* the same float64 computation as FloatPercent, worked out once for every
\* tally that can fill a window of the model: << failures, window, percentage >>.
failurePercentages ==
    { << q[1], q[2], FloatPercent(q[1], q[2]) >> :
          q \in { r \in (0..MaxProbes) \X ProbeWindows : r[1] <= r[2] } }

failurePercentage(atomicFailure, total) ==
    (CHOOSE e \in failurePercentages : e[1] = atomicFailure /\ e[2] = total)[3]

\* setHalfStateCount, lines 130-134 and 137: atomicSuccess is loaded; when
\* the window is full the percentage decides between reopening and closing.
setHalfStateCountLoadSuccess(c) ==
    /\ pc[c] = "hs_loads"
    /\ LET atomicFailure == call[c].fail
           atomicSuccess == HalfStateSuccessCount
       IN IF atomicFailure + atomicSuccess = HalfStateTotalRetryCount
          THEN /\ call' = [call EXCEPT ![c].succ = atomicSuccess]
               /\ pc' = [pc EXCEPT ![c] =
                            IF failurePercentage(atomicFailure, HalfStateTotalRetryCount)
                                   >= HalfStateFailurePercentage
                            THEN "hs_open" ELSE "hs_zero"]
               /\ UNCHANGED << ret, failsDone >>
          ELSE Return(c, call[c].wres, call[c].werr)
    /\ UNCHANGED << State, Failure, HalfStateFailureCount, HalfStateSuccessCount,
                    percentCfg, mu, timers, calls, fired >>

\* setHalfStateCount, line 135: br.setState(Open)
setHalfStateCountSetOpen(c) ==
    /\ pc[c] = "hs_open"
    /\ PercentSetState(Open)
    /\ Goto(c, "hs_arm")
    /\ UNCHANGED << Failure, HalfStateFailureCount, HalfStateSuccessCount,
                    percentCfg, timers, calls, fired >>

\* setHalfStateCount, line 136: br.startRetry()
setHalfStateCountArm(c) ==
    /\ pc[c] = "hs_arm"
    /\ startRetry
    /\ Goto(c, "hs_clrf")
    /\ UNCHANGED << State, Failure, HalfStateFailureCount, HalfStateSuccessCount,
                    percentCfg, mu, calls, fired >>

\* setHalfStateCount, line 138: atomic.StoreUint32(&br.Counter.Failure, 0)
setHalfStateCountZeroFailure(c) ==
    /\ pc[c] = "hs_zero"
    /\ Failure' = 0
    /\ Goto(c, "hs_close")
    /\ UNCHANGED << State, HalfStateFailureCount, HalfStateSuccessCount,
                    percentCfg, mu, timers, calls, fired >>

\* setHalfStateCount, line 139: br.setState(Closed)
setHalfStateCountSetClosed(c) ==
    /\ pc[c] = "hs_close"
    /\ PercentSetState(Closed)
    /\ Goto(c, "hs_clrf")
    /\ UNCHANGED << Failure, HalfStateFailureCount, HalfStateSuccessCount,
                    percentCfg, timers, calls, fired >>

\* setHalfStateCount, line 141:
\* atomic.StoreUint32(&br.Counter.HalfStateFailureCount, 0)
setHalfStateCountClearFailure(c) ==
    /\ pc[c] = "hs_clrf"
    /\ HalfStateFailureCount' = 0
    /\ Goto(c, "hs_clrs")
    /\ UNCHANGED << State, Failure, HalfStateSuccessCount, percentCfg, mu, timers,
                    calls, fired >>

\* setHalfStateCount, line 142:
\* atomic.StoreUint32(&br.Counter.HalfStateSuccessCount, 0); Execute then
\* returns res, err (lines 107, 111).
setHalfStateCountClearSuccess(c) ==
    /\ pc[c] = "hs_clrs"
    /\ HalfStateSuccessCount' = 0
    /\ Return(c, call[c].wres, call[c].werr)
    /\ UNCHANGED << State, Failure, HalfStateFailureCount, percentCfg, mu, timers,
                    calls, fired >>

\* failure, line 147: if br.getState() == HalfOpen
PercentFailureGetState(c) ==
    /\ pc[c] = "pf_get"
    /\ getStateLock
    /\ Goto(c, IF PercentGetState = HalfOpen THEN "pf_open" ELSE "pf_add")
    /\ UNCHANGED << State, Failure, HalfStateFailureCount, HalfStateSuccessCount,
                    percentCfg, timers, calls, fired >>

\* failure, line 148: br.setState(Open); no startRetry follows in this branch.
PercentFailureReopen(c) ==
    /\ pc[c] = "pf_open"
    /\ PercentSetState(Open)
    /\ Goto(c, "pf_add")
    /\ UNCHANGED << Failure, HalfStateFailureCount, HalfStateSuccessCount,
                    percentCfg, timers, calls, fired >>

\* failure, line 150: atomic.AddUint32(&br.Counter.Failure, 1)
PercentFailureAdd(c) ==
    /\ pc[c] = "pf_add"
    /\ Failure' = Failure + 1
    /\ Goto(c, "pf_load")
    /\ UNCHANGED << State, HalfStateFailureCount, HalfStateSuccessCount,
                    percentCfg, mu, timers, calls, fired >>

\* failure, line 151: if atomic.LoadUint32(&Failure) >= FailureThreshold;
\* otherwise failure returns and Execute returns res, err (line 116).
PercentFailureLoad(c) ==
    /\ pc[c] = "pf_load"
    /\ IF Failure >= FailureThreshold
       THEN Goto(c, "pf_set")
       ELSE Return(c, call[c].wres, call[c].werr)
    /\ UNCHANGED << State, Failure, HalfStateFailureCount, HalfStateSuccessCount,
                    percentCfg, mu, timers, calls, fired >>

\* failure, line 152: br.State = Open, a plain store made without br.mu:
\* it does not wait for the lock and does not take it.  The store of one
\* int takes effect at one point among the accesses of the other
\* goroutines, which is this step.
PercentFailureWriteOpen(c) ==
    /\ pc[c] = "pf_set"
    /\ State' = Open
    /\ Goto(c, "pf_arm")
    /\ UNCHANGED << Failure, HalfStateFailureCount, HalfStateSuccessCount,
                    percentCfg, mu, timers, calls, fired >>

\* failure, line 153: br.startRetry(); Execute then returns res, err (line 116).
PercentFailureArm(c) ==
    /\ pc[c] = "pf_arm"
    /\ startRetry
    /\ Return(c, call[c].wres, call[c].werr)
    /\ UNCHANGED << State, Failure, HalfStateFailureCount, HalfStateSuccessCount,
                    percentCfg, mu, calls, fired >>

\* The retry goroutine, lines 42-45: the sleep ends, br.setState(HalfOpen)
PercentTimerFire ==
    /\ timers > 0
    /\ timers' = timers - 1
    /\ PercentSetState(HalfOpen)
    /\ fired' = fired + 1
    /\ UNCHANGED << Failure, HalfStateFailureCount, HalfStateSuccessCount,
                    percentCfg, pc, call, ret, calls, failsDone >>

\* The steps of failure(), lines 147-153.
PercentFailureStep(c) ==
    \/ PercentFailureGetState(c)
    \/ PercentFailureReopen(c)
    \/ PercentFailureAdd(c)
    \/ PercentFailureLoad(c)
    \/ PercentFailureWriteOpen(c)
    \/ PercentFailureArm(c)

\* The steps of setHalfStateCount, lines 124-142.
setHalfStateCount(c) ==
    \/ setHalfStateCountGetState(c)
    \/ setHalfStateCountAddFailure(c)
    \/ setHalfStateCountAddSuccess(c)
    \/ setHalfStateCountLoadFailure(c)
    \/ setHalfStateCountLoadSuccess(c)
    \/ setHalfStateCountSetOpen(c)
    \/ setHalfStateCountArm(c)
    \/ setHalfStateCountZeroFailure(c)
    \/ setHalfStateCountSetClosed(c)
    \/ setHalfStateCountClearFailure(c)
    \/ setHalfStateCountClearSuccess(c)

\* One step of caller c's Execute on this Breaker.
PercentExecute(c) ==
    \/ PercentBegin(c)
    \/ PercentWork(c)
    \/ setHalfStateCount(c)
    \/ PercentFailureStep(c)

NextPercent ==
    \/ \E c \in Callers : PercentExecute(c)
    \/ PercentTimerFire

SpecPercent == InitPercent /\ [][NextPercent]_vars

\* Fair scheduling: a sleeping retry goroutine wakes up after its interval,
\* and a goroutine whose work function has returned runs on to the end of
\* Execute (failure() and setHalfStateCount block nowhere: the lock is held
\* for one assignment only).  Nothing is assumed of the work function or
\* of new calls being issued.
FairSpecPercent ==
    /\ InitPercent
    /\ [][NextPercent]_vars
    /\ WF_vars(PercentTimerFire)
    /\ \A c \in Callers : WF_vars(PercentFailureStep(c))
    /\ \A c \in Callers : WF_vars(setHalfStateCount(c))

\* ================================================================ claims
AllIdle == \A c \in Callers : pc[c] = "idle"

\* C1: a fresh breaker driven by one caller at a time, before any retry timer
\* has fired: while fewer than failureThreshold failing calls have returned
\* the state is Closed and failureCount is the number of failures so far;
\* once the failureThreshold-th failing call has returned the state is Open,
\* no later call runs work (the failures stay at the threshold, nobody is
\* inside Execute) and each later call returned the breaker-open error.
C1_TripAtThreshold ==
    fired = 0 =>
        /\ failsDone <= failureThreshold
        /\ (AllIdle /\ failsDone < failureThreshold) =>
               (state = stateClosed /\ failureCount = failsDone)
        /\ failsDone = failureThreshold =>
               /\ state = stateOpen
               /\ AllIdle
               /\ \/ ret.st = stateClosed /\ ret.werr # Nil
                  \/ ret.st = stateOpen /\ ret.worked = 0 /\ ret.err = ErrOpen

\* Three failures tripped a breaker of threshold 3 and a later call was
\* rejected, the retry timer still pending.
C1_Witness ==
    /\ fired = 0
    /\ failureThreshold = 3
    /\ failsDone = 3
    /\ calls > 3
    /\ ret.st = stateOpen
    /\ ret.err = ErrOpen

\* C2: an Execute that reads state Open (the step that issues a call while
\* the state is Open) never enters work, returns the zero value and the
\* error "circuit breaker is open", and leaves the state, failureCount, both
\* probe counters and the timers as they were, each time it is repeated.
C2_OpenShortCircuit ==
    [][ (calls' = calls + 1 /\ state = stateOpen) =>
            /\ pc' = pc
            /\ call' = call
            /\ ret'.st = stateOpen
            /\ ret'.worked = 0
            /\ ret'.res = 0
            /\ ret'.err = "circuit breaker is open"
            /\ state' = state
            /\ failureCount' = failureCount
            /\ halfOpenFailureCount' = halfOpenFailureCount
            /\ halfOpenSuccessCount' = halfOpenSuccessCount
            /\ timers' = timers ]_vars

\* Two calls in a row were rejected by an Open breaker whose counters are
\* not all zero.
C2_Witness ==
    /\ state = stateOpen
    /\ ret.st = stateOpen
    /\ ret.err = ErrOpen
    /\ failureThreshold = 1
    /\ failsDone = 1
    /\ calls = 3
    /\ failureCount > 0
    /\ AllIdle

\* C3: an Execute that read Closed or HalfOpen ran work exactly once and
\* returned exactly the value and the error work returned; no call in
\* flight has run work more than once.
C3_WorkOnceResultUnchanged ==
    /\ ret.st \in {stateClosed, stateHalfOpen} =>
           /\ ret.worked = 1
           /\ ret.res = ret.wres
           /\ ret.err = ret.werr
    /\ \A c \in Callers :
           /\ call[c].worked <= 1
           /\ pc[c] \notin {"idle", "work"} => call[c].worked = 1

\* A failing probe that reopened the breaker returned work's value and error.
C3_Witness ==
    /\ ret.st = stateHalfOpen
    /\ ret.werr # Nil
    /\ ret.res = 3
    /\ ret.err = "service broke"
    /\ state = stateOpen
    /\ AllIdle

\* C4: under fair scheduling of the retry timers, whenever the state is Open
\* it is eventually HalfOpen, under any interleaving of callers and timers.
C4_OpenLeadsToHalfOpen == (state = stateOpen) ~> (state = stateHalfOpen)

\* The state is Open while two retry timers are pending and a call that
\* read an earlier state is still in flight.
C4_Witness ==
    /\ state = stateOpen
    /\ timers = 2
    /\ \E c \in Callers : pc[c] # "idle"

\* C5: probes recorded one at a time.  A recordHalfOpenResult that returns
\* without a decision leaves a window that is not full.  One that returns
\* after a decision (it leaves line 179) had loaded a full window
\* (fail + succ = halfOpenMaxProbes); it wrote Closed if the failure
\* percentage of that window, fail * 100 / halfOpenMaxProbes, is below
\* halfOpenMaxFailurePercent and Open otherwise; after Open the timer it
\* armed is pending or has already fired (state HalfOpen); and both probe
\* counters are 0 when it returns.
C5_WindowDecision ==
    [][ /\ (pc[1] = "r_loads" /\ pc'[1] = "idle") =>
               halfOpenFailureCount' + halfOpenSuccessCount' < halfOpenMaxProbes
        /\ (pc[1] = "r_loads" /\ pc'[1] \notin {"r_loads", "idle"}) =>
               halfOpenFailureCount' + halfOpenSuccessCount' = halfOpenMaxProbes
        /\ (pc[1] = "r_clrs" /\ pc'[1] = "idle") =>
               /\ call[1].fail + call[1].succ = halfOpenMaxProbes
               /\ halfOpenFailureCount' = 0
               /\ halfOpenSuccessCount' = 0
               /\ IF call[1].fail * 100 < halfOpenMaxFailurePercent * halfOpenMaxProbes
                  THEN /\ call[1].decided = stateClosed
                       /\ state' \in {stateClosed, stateHalfOpen}
                  ELSE /\ call[1].decided = stateOpen
                       /\ \/ state' = stateOpen /\ timers' = 1
                          \/ state' = stateHalfOpen /\ timers' = 0 ]_vars

\* C6: under any interleaving, every change of the state is one of
\* Closed->Open, Open->HalfOpen, HalfOpen->Open, HalfOpen->Closed.
C6_OnlyFourTransitions ==
    [][ state' # state =>
            << state, state' >> \in { << stateClosed, stateOpen >>,
                                      << stateOpen, stateHalfOpen >>,
                                      << stateHalfOpen, stateOpen >>,
                                      << stateHalfOpen, stateClosed >> } ]_vars

\* C7: under any interleaving, at the moment the state changes to Closed
\* failureCount is 0.
C7_ClosedMeansZeroFailures ==
    [][ (state # stateClosed /\ state' = stateClosed) => failureCount' = 0 ]_vars

\* C8: halfOpenFailureCount + halfOpenSuccessCount never exceeds
\* halfOpenMaxProbes.
C8_ProbesWithinWindow ==
    halfOpenFailureCount + halfOpenSuccessCount <= halfOpenMaxProbes

\* C9: under any interleaving, no probe outcome is added to a probe counter
\* while the state is not HalfOpen (a late outcome is discarded), and every
\* HalfOpen period begins with both probe counters at 0.
C9_LateOutcomeDiscarded ==
    [][ /\ state # stateHalfOpen =>
               /\ halfOpenFailureCount' <= halfOpenFailureCount
               /\ halfOpenSuccessCount' <= halfOpenSuccessCount
        /\ (state # stateHalfOpen /\ state' = stateHalfOpen) =>
               /\ halfOpenFailureCount' = 0
               /\ halfOpenSuccessCount' = 0 ]_vars

\* C10: N callers call Execute concurrently on a fresh Closed breaker, the
\* work of each failing once, N < failureThreshold: when all have returned
\* failureCount = N and the state is Closed.
C10_NoLostIncrement ==
    (AllIdle /\ failsDone = calls /\ calls < failureThreshold) =>
        (failureCount = calls /\ state = stateClosed)

\* Two failing calls have returned on a breaker of threshold 3.
C10_Witness ==
    /\ AllIdle
    /\ calls = 2
    /\ failsDone = 2
    /\ failureThreshold = 3
    /\ failureCount = 2
    /\ state = stateClosed

\* C11: a retry timer changes the state only while the Open period that
\* armed it lasts: a timer that fires when the state is no longer Open (the
\* breaker has left every Open period begun before the timer was armed)
\* leaves the state as it is.
C11_StaleTimerIgnored ==
    [][ (fired' = fired + 1 /\ state # stateOpen) => state' = state ]_vars

\* C12: during one HalfOpen period at most halfOpenMaxProbes Execute calls
\* invoke work.  Stated for the first HalfOpen period, while it lasts (one
\* timer has fired and the state is still HalfOpen): the calls in flight
\* that read HalfOpen and have invoked work, all of them within this period,
\* are at most halfOpenMaxProbes.
C12_BoundedProbes ==
    (state = stateHalfOpen /\ fired = 1) =>
        Cardinality({ c \in Callers : /\ call[c].st = stateHalfOpen
                                      /\ pc[c] \notin {"idle", "work"} })
            <= halfOpenMaxProbes

\* C13: whenever some Execute is inside its call to work the state lock is
\* free, so that a pending retry timer can fire, a caller about to
\* setState(stateOpen) can do so and a caller about to read the state in
\* recordHalfOpenResult can read it, however long work takes.
C13_NoLockAcrossWork ==
    (\E c \in Callers : pc[c] = "work") =>
        /\ mu = 0
        /\ timers > 0 => ENABLED TimerFire
        /\ \A d \in Callers :
               /\ pc[d] = "f_set" => ENABLED FailureSetOpen(d)
               /\ pc[d] = "r_get" => ENABLED RecordGetState(d)

\* A call is inside work, with the breaker Open and its retry timer pending.
C13_Witness ==
    /\ \E c \in Callers : pc[c] = "work"
    /\ state = stateOpen
    /\ timers = 1
    /\ mu = 0

\* C14: with setState and getState taken one statement at a time, under
\* any interleaving: the state field is always one of Closed, Open,
\* HalfOpen; the lock is held by one writer and no reader, or by as many
\* readers as mu counts and no writer; the field changes only in the
\* assignment of setState (line 80), made once per call by the goroutine
\* that holds the exclusive lock while no other goroutine is inside setState
\* or getState; every read of the field is the one of getState (line 87),
\* made under the shared lock while no writer holds it; and the values
\* Execute, recordHalfOpenResult and LogState go on with are the ones
\* getState read.
C14_StateUnderLock ==
    [][ LET Writing == {g \in Goroutines : lk[g].ph \in {"locked", "stored"}}
            Reading == {g \in Goroutines : lk[g].ph \in {"rlocked", "read"}}
        IN /\ state \in {stateClosed, stateOpen, stateHalfOpen}
           /\ state' \in {stateClosed, stateOpen, stateHalfOpen}
           /\ mu = -1 => (Cardinality(Writing) = 1 /\ Reading = {})
           /\ mu # -1 => (Writing = {} /\ Cardinality(Reading) = mu)
           /\ \A g \in Goroutines :
                (lk[g].ph = "locked" /\ lk'[g].ph = "stored") =>
                    /\ mu = -1
                    /\ mu' = -1
                    /\ Writing = {g}
                    /\ Reading = {}
                    /\ state' = lk[g].val
           /\ state' # state =>
                \E g \in Goroutines : lk[g].ph = "locked" /\ lk'[g].ph = "stored"
           /\ \A g \in Goroutines :
                (lk[g].ph = "stored" /\ lk'[g].ph # "stored") =>
                    /\ lk'[g].ph = "out"
                    /\ mu = -1
                    /\ mu' = 0
                    /\ state' = state
           /\ \A g \in Goroutines :
                (lk[g].ph = "rlocked" /\ lk'[g].ph = "read") =>
                    /\ mu > 0
                    /\ mu' = mu
                    /\ Writing = {}
                    /\ lk'[g].val = state
                    /\ state' = state
           /\ \A c \in Callers :
                (call'[c].st # call[c].st /\ call'[c].st # -1) =>
                    (lk[c].ph = "read" /\ call'[c].st = lk[c].val)
           /\ \A c \in Callers :
                (pc[c] = "r_get" /\ pc'[c] # "r_get") =>
                    /\ lk[c].ph = "read"
                    /\ (pc'[c] = "r_add") = (lk[c].val = stateHalfOpen)
           /\ ret'.st # ret.st => \E c \in Callers :
                \/ lk[c].ph = "read" /\ ret'.st = lk[c].val
                \/ ret'.st = call[c].st
           /\ (log'.st # log.st /\ log'.st # -1) =>
                (lk[logGoroutine].ph = "read" /\ log'.st = lk[logGoroutine].val) ]_vars

\* A probe that read HalfOpen has made the assignment of line 80 with
\* Closed and still holds the exclusive lock, after failure and a retry
\* goroutine have each written the state, while the other caller and
\* LogState wait in RLock or are elsewhere.
C14_Witness ==
    /\ \E c \in Callers :
         /\ lk[c].ph = "stored"
         /\ lk[c].val = stateClosed
         /\ pc[c] = "r_close"
         /\ call[c].st = stateHalfOpen
    /\ state = stateClosed
    /\ mu = -1
    /\ failsDone >= 1
    /\ fired >= 1

\* C15: for every BreakerConfig value InitBreaker builds a breaker whose
\* fields are inside their domains: a FailureThreshold of 0 has become 5, a
\* RetryInterval <= 0 has become 5 seconds, a HalfOpenMaxProbes of 0 has
\* become 10, a HalfOpenMaxFailurePercent of 0 or above 100 has become 30,
\* and every field given inside its domain is kept.
C15_DefaultsApplied ==
    [][ (built = "no" /\ built' = "yes") =>
            /\ failureThreshold' >= 1
            /\ retryInterval' > 0
            /\ halfOpenMaxProbes' >= 1
            /\ halfOpenMaxFailurePercent' >= 1
            /\ halfOpenMaxFailurePercent' <= 100
            /\ failureThreshold' =
                   IF cfg.FailureThreshold = 0 THEN 5 ELSE cfg.FailureThreshold
            /\ retryInterval' =
                   IF cfg.RetryInterval <= 0 THEN 5000 ELSE cfg.RetryInterval
            /\ halfOpenMaxProbes' =
                   IF cfg.HalfOpenMaxProbes = 0 THEN 10 ELSE cfg.HalfOpenMaxProbes
            /\ halfOpenMaxFailurePercent' =
                   IF cfg.HalfOpenMaxFailurePercent \in 1..100
                   THEN cfg.HalfOpenMaxFailurePercent ELSE 30
            /\ state' = stateClosed ]_vars

\* A breaker was built from a configuration whose FailureThreshold (7) was
\* kept and whose other three fields were replaced by their defaults.
C15_Witness ==
    /\ built = "yes"
    /\ failureThreshold = 7
    /\ retryInterval = 5000
    /\ halfOpenMaxProbes = 10
    /\ halfOpenMaxFailurePercent = 30
    /\ timeout = 3000

\* C16: InitBreaker called with a nil configuration returns a breaker that
\* uses the default of every field; construction never fails.
C16_NilConfigUsesDefaults ==
    /\ built # "panic"
    /\ (cfg = NilConfig /\ built # "no") =>
           /\ built = "yes"
           /\ state = stateClosed
           /\ failureThreshold = 5
           /\ retryInterval = 5000
           /\ halfOpenMaxProbes = 10
           /\ halfOpenMaxFailurePercent = 30

\* C17: the error of a short-circuited Execute differs from every error
\* work can return: a call that returned the error "circuit breaker is
\* open" did not invoke work, whatever error work returns.
C17_OpenErrorMeansNoWork ==
    ret.err = ErrOpen => ret.worked = 0

\* C18: one caller at a time.  A call that read Closed and whose work
\* succeeded leaves failureCount at 0 when it returns; and only consecutive
\* failures open the breaker: when the call that returned last succeeded in
\* Closed, the next failure opens the breaker only if failureThreshold is 1.
C18_SuccessResetsFailures ==
    [][ /\ (pc[1] = "work" /\ call[1].st = stateClosed /\ pc'[1] = "idle") =>
               failureCount' = 0
        /\ ( /\ state = stateClosed
             /\ state' = stateOpen
             /\ ret.st = stateClosed
             /\ ret.worked = 1
             /\ ret.werr = Nil ) => failureThreshold = 1 ]_vars

\* C19: the steps of an Execute call that reads Closed and whose work
\* succeeds (the read of the state, and the return of work's result) leave
\* the state, failureCount, both probe counters and the timers as they
\* were; the call returns work's value with a nil error.
C19_ClosedSuccessChangesNothing ==
    [][ \A c \in Callers :
          ( \/ pc[c] = "idle" /\ pc'[c] = "work" /\ call'[c].st = stateClosed
            \/ pc[c] = "work" /\ call[c].st = stateClosed /\ pc'[c] = "idle" ) =>
              /\ state' = state
              /\ failureCount' = failureCount
              /\ halfOpenFailureCount' = halfOpenFailureCount
              /\ halfOpenSuccessCount' = halfOpenSuccessCount
              /\ timers' = timers
              /\ pc'[c] = "idle" => (ret'.err = Nil /\ ret'.res = ret'.wres) ]_vars

\* A successful call in Closed has returned and left failureCount at the
\* sub-threshold value 1 an earlier failure gave it.
C19_Witness ==
    /\ AllIdle
    /\ state = stateClosed
    /\ ret.st = stateClosed
    /\ ret.worked = 1
    /\ ret.werr = Nil
    /\ failureCount = 1
    /\ failsDone = 1
    /\ failureThreshold >= 2
    /\ fired = 0

\* C20: a breaker with the default half-open settings, one caller at a
\* time.  When the first Execute that ran in HalfOpen returns (one timer has
\* fired and no call that read HalfOpen has returned before), the state is
\* Closed with failureCount 0 if its work succeeded, and Open with a new
\* retry timer pending if its work failed.
C20_FirstProbeDecides ==
    [][ ( /\ call[1].st = stateHalfOpen
          /\ pc[1] # "idle"
          /\ pc'[1] = "idle"
          /\ fired = 1
          /\ ret.st # stateHalfOpen ) =>
            IF call[1].werr = Nil
            THEN state' = stateClosed /\ failureCount' = 0
            ELSE state' = stateOpen /\ timers' = 1 ]_vars

\* C21: HalfOpen is never a trap.  Stated for the first HalfOpen period,
\* while it lasts: when no call is in flight, fewer than halfOpenMaxProbes
\* calls that read HalfOpen have completed and been counted (had the tally
\* reached the window, the decision would have fired and the state would
\* have left HalfOpen).
C21_WindowAlwaysDecides ==
    (state = stateHalfOpen /\ fired = 1 /\ AllIdle) =>
        halfOpenFailureCount + halfOpenSuccessCount < halfOpenMaxProbes

\* C22: at most one armed retry timer that has not fired exists at any time.
C22_OneTimerPerOpen ==
    timers <= 1

\* C23: each HalfOpen period produces at most one window decision.  Stated
\* for the first HalfOpen period: of the calls that read HalfOpen before a
\* second timer has fired, at most one is inside the decision branch of
\* recordHalfOpenResult (lines 170-179).
C23_OneDecisionPerPeriod ==
    fired = 1 =>
        Cardinality({ c \in Callers :
                        pc[c] \in {"r_open", "r_arm", "r_zero", "r_close",
                                   "r_clrf", "r_clrs"} }) <= 1

\* C24: failureCount is incremented only while the state is Closed, and it
\* never exceeds failureThreshold.
C24_FailuresCountedInClosed ==
    [][ /\ failureCount' > failureCount => state = stateClosed
        /\ failureCount' <= failureThreshold ]_vars

\* C25: a firing retry timer sets the state to HalfOpen whatever it was and
\* changes nothing else: failureCount, both probe counters, the
\* configuration and every call in flight are as before; when the state
\* was already HalfOpen the breaker is exactly as it was.
C25_TimerOnlySetsHalfOpen ==
    [][ fired' = fired + 1 =>
            /\ state' = stateHalfOpen
            /\ failureCount' = failureCount
            /\ halfOpenFailureCount' = halfOpenFailureCount
            /\ halfOpenSuccessCount' = halfOpenSuccessCount
            /\ UNCHANGED << cfgVars, mu, pc, call, ret, calls, failsDone >>
            /\ timers' = timers - 1 ]_vars

\* Two timers have fired on a breaker with a window of 2; the state is
\* HalfOpen and the one probe outcome recorded so far is still in the tally.
C25_Witness ==
    /\ state = stateHalfOpen
    /\ fired = 2
    /\ timers = 0
    /\ calls = 3
    /\ halfOpenMaxProbes = 2
    /\ halfOpenSuccessCount = 1
    /\ halfOpenFailureCount = 0
    /\ failureCount = 2
    /\ AllIdle

\* C26: in every quiescent state (no Execute in flight, no retry timer
\* pending) state = Closed implies failureCount < failureThreshold.
C26_QuiescentClosedBelowThreshold ==
    (AllIdle /\ timers = 0 /\ state = stateClosed) =>
        failureCount < failureThreshold

\* C27: the failure percentage the window decision uses is the integer
\* floor(fail * 100 / halfOpenMaxProbes), for every window size and every
\* number of failures in it, so that the window reopens the breaker
\* exactly when that integer is >= halfOpenMaxFailurePercent.
C27_PercentIsFloor ==
    [][ (pc[1] = "r_loads" /\ pc'[1] \in {"r_open", "r_zero"}) =>
            LET f == call[1].fail
                n == halfOpenMaxProbes
            IN /\ FailurePercent(f, n) = (f * 100) \div n
               /\ (pc'[1] = "r_open") <=>
                      ((f * 100) \div n >= halfOpenMaxFailurePercent) ]_vars

\* C28: a probe window recorded one probe after the other.  When all its
\* outcomes are successes the last recordHalfOpenResult takes the closing
\* branch and sets the state to Closed; when all are failures it takes the
\* reopening branch and sets the state to Open; for every window size and
\* every percentage limit from 1 to 100.
C28_UniformWindowDecides ==
    [][ /\ (pc[1] = "r_loads" /\ pc'[1] # "r_loads" /\ call[1].fail = 0) =>
               pc'[1] = "r_zero"
        /\ (pc[1] = "r_loads" /\ pc'[1] # "r_loads"
                /\ call[1].fail = halfOpenMaxProbes) => pc'[1] = "r_open"
        /\ (pc[1] = "r_close" /\ pc'[1] # "r_close") => state' = stateClosed
        /\ (pc[1] = "r_open" /\ pc'[1] # "r_open") => state' = stateOpen ]_vars

\* A window of 7 failures has reopened a breaker whose limit is 100 percent.
C28_Witness ==
    /\ halfOpenMaxProbes = 7
    /\ halfOpenMaxFailurePercent = 100
    /\ call[1].fail = 7
    /\ call[1].succ = 0
    /\ call[1].decided = stateOpen
    /\ state = stateOpen
    /\ timers = 1

\* C29: the success-threshold variant, one caller at a time.  A successful
\* probe that leaves Success below SuccessThreshold returns with the state
\* still HalfOpen; one that brings Success to SuccessThreshold sets the
\* state to Closed and returns with Success at 0.  A failed probe reopens
\* the breaker and no step of failure() changes Success, so the successes
\* of an earlier HalfOpen period still count: Success changes only by the
\* increment of a successful probe and by the reset on closing.
C29_SuccessThresholdCarriesOver ==
    [][ /\ (pc[1] = "bs_load" /\ pc'[1] = "idle") =>
               (Success < SuccessThreshold /\ State' = HalfOpen /\ Success' = Success)
        /\ (pc[1] = "bs_load" /\ pc'[1] = "bs_close") => Success >= SuccessThreshold
        /\ (pc[1] = "bs_clr" /\ pc'[1] = "idle") => (State' = Closed /\ Success' = 0)
        /\ (call[1].st = HalfOpen /\ pc[1] = "bf_arm" /\ pc'[1] = "idle") =>
               (State' = Open /\ timers' = 1)
        /\ pc[1] \in {"bf_get", "bf_open", "bf_add", "bf_load", "bf_set", "bf_arm"} =>
               Success' = Success
        /\ Success' # Success =>
               \/ pc[1] = "bs_add" /\ Success' = Success + 1
               \/ pc[1] = "bs_clr" /\ Success' = 0 ]_vars

\* With SuccessThreshold 2, a probe is closing the breaker although the
\* call before it was a failed probe: one of the two successes was counted
\* in an earlier HalfOpen period.
C29_Witness ==
    /\ pc[1] = "bs_clr"
    /\ SuccessThreshold = 2
    /\ Success = 2
    /\ State = Closed
    /\ fired = 2
    /\ ret.st = HalfOpen
    /\ ret.werr # Nil

\* C30: the success-threshold variant with SuccessThreshold = 0: a
\* successful Execute that read HalfOpen returns with the state Closed and
\* Success at 0, the first one after the breaker opened included.
C30_ZeroThresholdClosesAtOnce ==
    [][ ( /\ SuccessThreshold = 0
          /\ call[1].st = HalfOpen
          /\ call[1].werr = Nil
          /\ call[1].worked = 1
          /\ pc[1] # "idle"
          /\ pc'[1] = "idle" ) => (State' = Closed /\ Success' = 0) ]_vars

\* The first probe after the breaker opened succeeded and closed a breaker
\* whose SuccessThreshold is 0.
C30_Witness ==
    /\ SuccessThreshold = 0
    /\ FailureThreshold = 1
    /\ State = Closed
    /\ Success = 0
    /\ calls = 2
    /\ fired = 1
    /\ ret.st = HalfOpen
    /\ ret.werr = Nil
    /\ ret.err = Nil
    /\ AllIdle

\* C31: the percentage-window variant under any interleaving of its callers
\* and retry goroutines, all of them scheduled fairly: every path that sets
\* the state to Open has armed or goes on to arm a retry timer, so Open is
\* always followed by HalfOpen.  Stated in the form the claim implies
\* whatever calls are issued later on: the state never stays Open for ever.
C31_OpenIsLeft == (State = Open) ~> (State # Open)

====
